---- MODULE Spec2Model ----
(***************************************************************************)
(* Question-synthesis engine of the billiard-shot MCQ generator:           *)
(* the closed fact vocabulary, the fact extractor, the tense renderer and  *)
(* the multi-label option sampler (src/question_gen/options.py).           *)
(***************************************************************************)
EXTENDS Integers, Sequences, FiniteSets, TLC

(***************************************************************************)
(* Bounds of the model.                                                    *)
(***************************************************************************)
\* largest num_wall_hits drawn for an outcome
MaxHits == 4
\* longest wall_hits sequence drawn for an outcome
MaxWallSeq == 4
\* largest total / num_correct drawn for a sampler call on a hand-built pool
MaxTotal == 3
\* largest total / num_correct drawn for a sampler call on the 32-fact
\* DISTRACTOR_POOL_FACTS (the number of draws grows as 32^total)
MaxTotalFullPool == 2

(***************************************************************************)
(* Python values.  None is a distinguished string so that every field has  *)
(* one TLC type; Truthy is Python's truth test on a str-or-None value.     *)
(***************************************************************************)
None == "<None>"

Truthy(v) == v # None /\ v # ""

\* str(v) for a str-or-None value
Str(v) == IF v = None THEN "None" ELSE v

(***************************************************************************)
(* tense.py                                                                *)
(***************************************************************************)
BASE == "base"
FUTURE == "future"
CONDITIONAL == "conditional"

Tense == {BASE, FUTURE, CONDITIONAL}

(***************************************************************************)
(* options.py: vocabulary                                                  *)
(***************************************************************************)
POCKET_COLORS == <<"gray", "purple", "blue", "orange", "green", "red">>

WALL_NAMES ==
  <<"green-blue-wall", "orange-red-wall", "grey-orange-wall",
    "purple-grey-wall", "blue-purple-wall", "red-green-wall">>

\* OptionFact(kind, args): args is a tuple of str and int values; the two
\* types are kept in separate slots (sargs, nargs) so that equality of facts
\* is Python's value equality of (kind, args).
OptionFact(kind) == [kind |-> kind, sargs |-> <<>>, nargs |-> <<>>]

OptionFactS(kind, s) == [kind |-> kind, sargs |-> <<s>>, nargs |-> <<>>]

OptionFactN(kind, n) == [kind |-> kind, sargs |-> <<>>, nargs |-> <<n>>]

Range(s) == {s[i] : i \in 1..Len(s)}

\* order-preserving removal of later duplicates (the seen-set loops)
Dedup(s) ==
  LET F[i \in 0..Len(s)] ==
        IF i = 0 THEN <<>>
        ELSE IF s[i] \in Range(F[i-1]) THEN F[i-1] ELSE Append(F[i-1], s[i])
  IN F[Len(s)]

(***************************************************************************)
(* options.py: OptionRenderer                                              *)
(***************************************************************************)
_pocketed(tense) ==
  IF tense = FUTURE THEN "The ball will be pocketed"
  ELSE IF tense = CONDITIONAL THEN "The ball would be pocketed"
  ELSE "The ball was pocketed"

_pocketed_in(color, tense) ==
  IF tense = FUTURE THEN "The ball will be pocketed in the " \o color \o " pocket"
  ELSE IF tense = CONDITIONAL
    THEN "The ball would be pocketed in the " \o color \o " pocket"
  ELSE "The ball was pocketed in the " \o color \o " pocket"

_not_pocketed(tense) ==
  IF tense = FUTURE THEN "The ball will not be pocketed"
  ELSE IF tense = CONDITIONAL THEN "The ball would not be pocketed"
  ELSE "The ball was not pocketed"

\* the verb chosen by the three wall-count helpers
HitVerb(tense) ==
  IF tense = FUTURE THEN "will hit"
  ELSE IF tense = CONDITIONAL THEN "would hit"
  ELSE "hits"

_hits_n_walls(n, tense) ==
  LET unit == IF n = 1 THEN "wall" ELSE "walls"
  IN "The ball " \o HitVerb(tense) \o " " \o ToString(n) \o " " \o unit

_hits_diff_walls(n, tense) ==
  "The ball " \o HitVerb(tense) \o " " \o ToString(n) \o " different walls"

_hits_same_wall_n_times(n, tense) ==
  "The ball " \o HitVerb(tense) \o " the same wall " \o ToString(n) \o " times"

\* mutant of _wall_hit_order: the ordinal prefix is always "first"
_wall_hit_order_AlwaysFirst(order, name, tense) ==
  LET mid == IF tense = FUTURE THEN "hit will be"
             ELSE IF tense = CONDITIONAL THEN "hit would be"
             ELSE "hit was"
  IN "The first wall " \o mid \o " " \o name

_wall_hit_order(order, name, tense) ==
  LET prefix == IF order = 1 THEN "first"
                ELSE IF order = 2 THEN "second" ELSE "third"
      mid == IF tense = FUTURE THEN "hit will be"
             ELSE IF tense = CONDITIONAL THEN "hit would be"
             ELSE "hit was"
  IN "The " \o prefix \o " wall " \o mid \o " " \o name

\* the fallback f"{k}({', '.join(map(str, args))})" for a kind outside the
\* vocabulary (facts of this model carry at most one argument)
RenderFallback(fact) ==
  fact.kind \o "("
    \o (IF fact.sargs # <<>> THEN fact.sargs[1]
        ELSE IF fact.nargs # <<>> THEN ToString(fact.nargs[1]) ELSE "")
    \o ")"

render(fact, tense) ==
  LET k == fact.kind IN
  IF k = "pocketed" THEN _pocketed(tense)
  ELSE IF k = "pocketed_in" THEN _pocketed_in(fact.sargs[1], tense)
  ELSE IF k = "not_pocketed" THEN _not_pocketed(tense)
  ELSE IF k = "hits_0_walls" THEN _hits_n_walls(0, tense)
  ELSE IF k = "hits_1_wall" THEN _hits_n_walls(1, tense)
  ELSE IF k = "hits_n_diff_walls" THEN _hits_diff_walls(fact.nargs[1], tense)
  ELSE IF k = "hits_same_wall_n_times"
    THEN _hits_same_wall_n_times(fact.nargs[1], tense)
  ELSE IF k = "first_wall_hit" THEN _wall_hit_order(1, fact.sargs[1], tense)
  ELSE IF k = "second_wall_hit" THEN _wall_hit_order(2, fact.sargs[1], tense)
  ELSE IF k = "third_wall_hit" THEN _wall_hit_order(3, fact.sargs[1], tense)
  ELSE RenderFallback(fact)

(***************************************************************************)
(* options.py: facts_from_outcome                                          *)
(***************************************************************************)
\* A variant that stays silent for a ball that was not pocketed.
PocketFacts_SilentWhenNotPocketed(pocketed, pocket_color) ==
  IF pocketed THEN <<OptionFact("pocketed")>> ELSE <<>>

\* lines 275-281
PocketFacts(pocketed, pocket_color) ==
  IF pocketed
    THEN <<OptionFact("pocketed")>>
         \o (IF Truthy(pocket_color)
               THEN <<OptionFactS("pocketed_in", Str(pocket_color))>>
               ELSE <<>>)
    ELSE <<OptionFact("not_pocketed")>>

\* lines 283-293
WallCountFacts(hits, wall_hits) ==
  IF hits = 0 THEN <<OptionFact("hits_0_walls")>>
  ELSE IF hits = 1 THEN <<OptionFact("hits_1_wall")>>
  ELSE IF hits >= 2
    THEN IF /\ wall_hits # <<>>
            /\ Len(wall_hits) = hits
            /\ Cardinality(Range(wall_hits)) = 1
           THEN <<OptionFactN("hits_same_wall_n_times", hits)>>
           ELSE <<OptionFactN("hits_n_diff_walls", hits)>>
  ELSE <<>>

\* A variant that reads the second name from the first position.
WallOrderFacts_SecondFromFirst(wall_hits) ==
  IF wall_hits # <<>>
    THEN <<OptionFactS("first_wall_hit", wall_hits[1])>>
         \o (IF Len(wall_hits) > 1
               THEN <<OptionFactS("second_wall_hit", wall_hits[1])>> ELSE <<>>)
         \o (IF Len(wall_hits) > 2
               THEN <<OptionFactS("third_wall_hit", wall_hits[3])>> ELSE <<>>)
    ELSE <<>>

\* lines 295-301
WallOrderFacts(wall_hits) ==
  IF wall_hits # <<>>
    THEN <<OptionFactS("first_wall_hit", wall_hits[1])>>
         \o (IF Len(wall_hits) > 1
               THEN <<OptionFactS("second_wall_hit", wall_hits[2])>> ELSE <<>>)
         \o (IF Len(wall_hits) > 2
               THEN <<OptionFactS("third_wall_hit", wall_hits[3])>> ELSE <<>>)
    ELSE <<>>

facts_from_outcome(o) ==
  Dedup(PocketFacts(o.pocketed, o.pocket_color)
        \o WallCountFacts(o.num_wall_hits, o.wall_hits)
        \o WallOrderFacts(o.wall_hits))

\* lines 314-334
_describes_pocketed(fact) == fact.kind \in {"pocketed", "pocketed_in"}

_describes_not_pocketed(fact) == fact.kind = "not_pocketed"

_describes_zero_wall_hits(fact) == fact.kind = "hits_0_walls"

_describes_positive_wall_hits(fact) ==
  fact.kind \in {"hits_1_wall", "hits_n_diff_walls", "hits_same_wall_n_times",
                 "first_wall_hit", "second_wall_hit", "third_wall_hit"}

\* lines 337-356
_is_consistent_distractor(candidate, chosen) ==
  \A i \in 1..Len(chosen) :
    LET fact == chosen[i] IN
      /\ ~(_describes_pocketed(fact) /\ _describes_not_pocketed(candidate))
      /\ ~(_describes_not_pocketed(fact) /\ _describes_pocketed(candidate))
      /\ ~(_describes_zero_wall_hits(fact) /\ _describes_positive_wall_hits(candidate))
      /\ ~(_describes_zero_wall_hits(candidate) /\ _describes_positive_wall_hits(fact))

\* lines 361-384
DISTRACTOR_POOL_FACTS ==
  <<OptionFact("pocketed")>>
  \o [i \in 1..Len(POCKET_COLORS) |-> OptionFactS("pocketed_in", POCKET_COLORS[i])]
  \o <<OptionFact("not_pocketed")>>
  \o <<OptionFact("hits_0_walls"), OptionFact("hits_1_wall")>>
  \o <<OptionFactN("hits_n_diff_walls", 2), OptionFactN("hits_n_diff_walls", 3)>>
  \o <<OptionFactN("hits_same_wall_n_times", 2),
       OptionFactN("hits_same_wall_n_times", 3)>>
  \o [i \in 1..Len(WALL_NAMES) |-> OptionFactS("first_wall_hit", WALL_NAMES[i])]
  \o [i \in 1..Len(WALL_NAMES) |-> OptionFactS("second_wall_hit", WALL_NAMES[i])]
  \o [i \in 1..Len(WALL_NAMES) |-> OptionFactS("third_wall_hit", WALL_NAMES[i])]

(***************************************************************************)
(* State.                                                                  *)
(*   outcomes, facts, fpc: one call facts = facts_from_outcome(outcomes).  *)
(*   call, true_facts, ..., pc: one call of sample_multilabel_from_facts;  *)
(*   call holds the arguments as passed, the other variables are the       *)
(*   function's locals of the same names.                                  *)
(***************************************************************************)
VARIABLES outcomes, facts, fpc,
          call, true_facts, num_correct, chosen_true, distractors,
          deduped, options, ground_truth, pc,
          sim_entry, cue_hits, hpc,
          sim_data, index, ipc, cf_query, cf_ids,
          gen_args, sim_id, filtered_outcomes, out_dataset, gpc, pool_facts,
          seed, exclude_invalid_hits, output_file, runs, coord_call, coord_str

factVars == <<outcomes, facts, fpc>>

samplerVars == <<call, true_facts, num_correct, chosen_true, distractors,
                 deduped, options, ground_truth, pc>>

\* One call cue_hits = extract_cue_wall_hits(sim_entry).
hitVars == <<sim_entry, cue_hits, hpc>>

\* index = make_index(sim_data); cf_ids = find_*_cfs(cf_query ...).
indexVars == <<sim_data, index, ipc, cf_query, cf_ids>>

\* One run of generate_sft_mcq_multilabel(sim_data, **gen_args).
\* pool_facts is the module global DISTRACTOR_POOL_FACTS as the run sees it.
genVars == <<gen_args, sim_id, filtered_outcomes, out_dataset, gpc,
             pool_facts>>

\* question_gen.py main: the runs of the command line tool with one seed;
\* output_file is raw_qa.jsonl, runs the exit code and records of each run.
mainVars == <<seed, exclude_invalid_hits, output_file, runs>>

\* One call coord_str = coord_to_str(coord_call.coord, coord_call.prefix).
coordVars == <<coord_call, coord_str>>

restVars == <<mainVars, coordVars>>

dataVars == <<hitVars, indexVars, genVars, restVars>>

vars == <<factVars, samplerVars, dataVars>>

HitsIdle ==
  /\ sim_entry = <<>>
  /\ cue_hits = <<>>
  /\ hpc = "idle"

IndexIdle ==
  /\ sim_data = <<>>
  /\ index = <<>>
  /\ ipc = "idle"
  /\ cf_query = <<>>
  /\ cf_ids = <<>>

GenIdle ==
  /\ gen_args = <<>>
  /\ sim_id = 0
  /\ filtered_outcomes = <<>>
  /\ out_dataset = <<>>
  /\ gpc = "idle"
  /\ pool_facts = DISTRACTOR_POOL_FACTS

MainIdle ==
  /\ seed = 0
  /\ exclude_invalid_hits = FALSE
  /\ output_file = <<>>
  /\ runs = <<>>

CoordIdle ==
  /\ coord_call = <<>>
  /\ coord_str = ""

RestIdle == MainIdle /\ CoordIdle

DataIdle == HitsIdle /\ IndexIdle /\ GenIdle /\ RestIdle

SeqsUpTo(S, n) == UNION {[1..k -> S] : k \in 0..n}

(***************************************************************************)
(* Inputs of facts_from_outcome: normalized outcome records.               *)
(***************************************************************************)
InputWalls == {"red-green-wall", "blue-purple-wall", "grey-orange-wall"}

InputColors == {None, "", "orange", "gray"}

Outcomes ==
  [num_wall_hits : -1..MaxHits,
   wall_hits : SeqsUpTo(InputWalls, MaxWallSeq),
   pocketed : BOOLEAN,
   pocket_color : InputColors]

NoOutcome ==
  [num_wall_hits |-> 0, wall_hits |-> <<>>, pocketed |-> FALSE,
   pocket_color |-> None]

FactsInit ==
  /\ outcomes \in Outcomes
  /\ facts = <<>>
  /\ fpc = "call"

FactsIdle ==
  /\ outcomes = NoOutcome
  /\ facts = <<>>
  /\ fpc = "idle"

\* facts = facts_from_outcome(outcomes)
Extract ==
  /\ fpc = "call"
  /\ facts' = facts_from_outcome(outcomes)
  /\ fpc' = "done"
  /\ UNCHANGED outcomes
  /\ UNCHANGED samplerVars
  /\ UNCHANGED dataVars

NoCall ==
  [true_facts |-> <<>>, pool_facts |-> <<>>, total |-> 0, num_correct |-> 0,
   tense |-> BASE]

SamplerIdle ==
  /\ call = NoCall
  /\ true_facts = <<>>
  /\ num_correct = 0
  /\ chosen_true = <<>>
  /\ distractors = <<>>
  /\ deduped = <<>>
  /\ options = <<>>
  /\ ground_truth = <<>>
  /\ pc = "idle"

FactsNext == Extract

InitFacts == FactsInit /\ SamplerIdle /\ DataIdle

SpecFacts == InitFacts /\ [][FactsNext]_vars

(***************************************************************************)
(* options.py: random_sample and sample_multilabel_from_facts              *)
(***************************************************************************)
Min(a, b) == IF a < b THEN a ELSE b

Max(a, b) == IF a > b THEN a ELSE b

\* random.sample(list(items), k): k distinct positions of items, in any order
Arrangements(items, k) ==
  {[i \in 1..k |-> items[f[i]]] :
     f \in {g \in [1..k -> 1..Len(items)] :
              \A i, j \in 1..k : i # j => g[i] # g[j]}}

\* the set of lists random_sample(items, k) can return
random_sample(items, k) ==
  IF k <= 0 THEN {<<>>}
  ELSE IF k >= Len(items) THEN {items}
  ELSE Arrangements(items, k)

\* the lists random.shuffle can leave in place of s
Shuffles(s) ==
  {[i \in 1..Len(s) |-> s[p[i]]] : p \in Permutations(1..Len(s))}

\* mutant of FallbackTrueFacts: no fallback for an empty list
FallbackTrueFacts_None(tf) == tf

\* line 399-401: the fallback for an empty true_facts
FallbackTrueFacts(tf) == IF tf = <<>> THEN <<OptionFact("not_pocketed")>> ELSE tf

\* mutant of ClampNumCorrect: len(true_facts) is left out of the min
ClampNumCorrect_NoLen(nc, tf, total) == Max(1, Min(nc, total))

\* line 403
ClampNumCorrect(nc, tf, total) == Max(1, Min(Min(nc, Len(tf)), total))

\* mutant of distractor_candidates: the consistency filter is applied
distractor_candidates_Consistent(pool, chosen) ==
  SelectSeq(pool, LAMBDA f : /\ f \notin Range(chosen)
                             /\ _is_consistent_distractor(f, chosen))

\* line 409-410
distractor_candidates(pool, chosen) ==
  SelectSeq(pool, LAMBDA f : f \notin Range(chosen))

\* mutant of num_distractors_needed: num_correct is not subtracted
num_distractors_needed_NoSub(total, nc) == Max(0, total)

\* line 411
num_distractors_needed(total, nc) == Max(0, total - nc)

\* line 416-418
Labeled(chosen, ds) ==
  [i \in 1..Len(chosen) |-> [fact |-> chosen[i], is_correct |-> TRUE]]
  \o [i \in 1..Len(ds) |-> [fact |-> ds[i], is_correct |-> FALSE]]

\* line 422-428: keep the first entry of every fact
DedupLabeled(labeled) ==
  LET F[i \in 0..Len(labeled)] ==
        IF i = 0 THEN <<>>
        ELSE IF labeled[i].fact \in {F[i-1][j].fact : j \in 1..Len(F[i-1])}
          THEN F[i-1]
          ELSE Append(F[i-1], labeled[i])
  IN F[Len(labeled)]

\* line 434
RenderAll(d, tense) == [i \in 1..Len(d) |-> render(d[i].fact, tense)]

\* mutant of GroundTruth: 1-based indices
GroundTruth_OneBased(d) ==
  LET F[i \in 0..Len(d)] ==
        IF i = 0 THEN <<>>
        ELSE IF d[i].is_correct THEN Append(F[i-1], i) ELSE F[i-1]
  IN F[Len(d)]

\* line 435: the 0-based indices of the entries marked correct, ascending
GroundTruth(d) ==
  LET F[i \in 0..Len(d)] ==
        IF i = 0 THEN <<>>
        ELSE IF d[i].is_correct THEN Append(F[i-1], i - 1) ELSE F[i-1]
  IN F[Len(d)]

(***************************************************************************)
(* Inputs of sample_multilabel_from_facts.                                 *)
(***************************************************************************)
\* the outcome of tests/test_options.py (shot_2048)
TestOutcome ==
  [num_wall_hits |-> 2, wall_hits |-> <<"blue-purple-wall", "orange-red-wall">>,
   pocketed |-> TRUE, pocket_color |-> "orange"]

PocketedNoWalls ==
  [num_wall_hits |-> 0, wall_hits |-> <<>>, pocketed |-> TRUE,
   pocket_color |-> "gray"]

\* the outcome of test_facts_are_deduplicated
SameWallThrice ==
  [num_wall_hits |-> 3,
   wall_hits |-> <<"grey-orange-wall", "grey-orange-wall", "grey-orange-wall">>,
   pocketed |-> TRUE, pocket_color |-> "orange"]

FourHits ==
  [num_wall_hits |-> 4,
   wall_hits |-> <<"red-green-wall", "unknown", "red-green-wall", "unknown">>,
   pocketed |-> FALSE, pocket_color |-> None]

\* true-fact lists the extractor produces
ExtractedInputs ==
  {facts_from_outcome(o) : o \in {TestOutcome, PocketedNoWalls, SameWallThrice, FourHits}}

\* hand-built true-fact lists: empty, a single fact, a repeated fact
TrueFactInputs ==
  ExtractedInputs
    \cup {<<>>,
          <<OptionFact("not_pocketed")>>,
          <<OptionFact("hits_1_wall"), OptionFact("hits_1_wall")>>}

\* hand-built pools: empty, and one that repeats a fact
PoolInputs ==
  {<<>>,
   <<OptionFact("hits_1_wall"), OptionFact("pocketed"), OptionFact("pocketed"),
     OptionFact("not_pocketed")>>}

Calls ==
  [true_facts : TrueFactInputs, pool_facts : PoolInputs,
   total : 0..MaxTotal, num_correct : 0..MaxTotal, tense : Tense]
  \cup
  [true_facts : TrueFactInputs, pool_facts : {DISTRACTOR_POOL_FACTS},
   total : 0..MaxTotalFullPool, num_correct : 0..MaxTotalFullPool, tense : Tense]

SamplerInit ==
  /\ call \in Calls
  /\ true_facts = call.true_facts
  /\ num_correct = call.num_correct
  /\ chosen_true = <<>>
  /\ distractors = <<>>
  /\ deduped = <<>>
  /\ options = <<>>
  /\ ground_truth = <<>>
  /\ pc = "choose_true"

\* lines 399-406
ChooseTrue ==
  /\ pc = "choose_true"
  /\ true_facts' = FallbackTrueFacts(true_facts)
  /\ num_correct' = ClampNumCorrect(num_correct, true_facts', call.total)
  /\ chosen_true' \in random_sample(true_facts', num_correct')
  /\ pc' = "choose_distractors"
  /\ UNCHANGED <<call, distractors, deduped, options, ground_truth>>
  /\ UNCHANGED factVars
  /\ UNCHANGED dataVars

\* lines 408-414
ChooseDistractors ==
  /\ pc = "choose_distractors"
  /\ LET cands == distractor_candidates(call.pool_facts, chosen_true)
     IN distractors' \in
          random_sample(cands,
                        Min(num_distractors_needed(call.total, num_correct),
                            Len(cands)))
  /\ pc' = "shuffle"
  /\ UNCHANGED <<call, true_facts, num_correct, chosen_true, deduped, options,
                 ground_truth>>
  /\ UNCHANGED factVars
  /\ UNCHANGED dataVars

\* lines 416-436
ShuffleAndRender ==
  /\ pc = "shuffle"
  /\ deduped' \in Shuffles(DedupLabeled(Labeled(chosen_true, distractors)))
  /\ options' = RenderAll(deduped', call.tense)
  /\ ground_truth' = GroundTruth(deduped')
  /\ pc' = "return"
  /\ UNCHANGED <<call, true_facts, num_correct, chosen_true, distractors>>
  /\ UNCHANGED factVars
  /\ UNCHANGED dataVars

SamplerNext == ChooseTrue \/ ChooseDistractors \/ ShuffleAndRender

Init == SamplerInit /\ FactsIdle /\ DataIdle

Spec == Init /\ [][SamplerNext]_vars

(***************************************************************************)
(* Claims about sample_multilabel_from_facts.                              *)
(***************************************************************************)
Returned == pc = "return"

HasKind(fs, kinds) == \E i \in 1..Len(fs) : fs[i].kind \in kinds

NoDuplicates(s) == \A i, j \in 1..Len(s) : i # j => s[i] # s[j]

\* the renderings of the facts of a list under the call's tense
Renderings(fs) == {render(fs[i], call.tense) : i \in 1..Len(fs)}

\* C1: an option is in ground_truth iff its string renders a fact of
\* true_facts; a true fact that was not chosen as correct is never returned
\* as an incorrect option.
C1_TrueIffMarkedCorrect ==
  Returned =>
    \A k \in 1..Len(options) :
      /\ ((k - 1) \in Range(ground_truth)) <=> (options[k] \in Renderings(true_facts))
      /\ ~deduped[k].is_correct => deduped[k].fact \notin Range(true_facts)

\* C2: ground_truth holds pairwise distinct indices of options, and these are
\* exactly the positions, after the shuffle, of the facts chosen as correct.
C2_GroundTruthIsChosenPositions ==
  Returned =>
    /\ \A i \in 1..Len(ground_truth) : ground_truth[i] \in 0..(Len(options) - 1)
    /\ NoDuplicates(ground_truth)
    /\ Len(options) = Len(deduped)
    /\ \A k \in 1..Len(options) :
         /\ options[k] = render(deduped[k].fact, call.tense)
         /\ ((k - 1) \in Range(ground_truth)) <=> (deduped[k].fact \in Range(chosen_true))
    /\ \A i \in 1..Len(ground_truth) :
         options[ground_truth[i] + 1] \in Renderings(chosen_true)
    /\ \A c \in 1..Len(chosen_true) :
         \E i \in 1..Len(ground_truth) :
           deduped[ground_truth[i] + 1].fact = chosen_true[c]

\* C2 witness: three options returned, the correct ones at indices 0 and 2
C2_Witness ==
  /\ Returned
  /\ Len(options) = 3
  /\ ground_truth = <<0, 2>>
  /\ Len(chosen_true) = 2

\* C3: with true facts from facts_from_outcome and DISTRACTOR_POOL_FACTS as the
\* pool, under every tense, no two option strings of one result are equal and
\* no fact is returned twice.
C3_OptionsUnique ==
  (Returned /\ call.true_facts \in ExtractedInputs
            /\ call.pool_facts = DISTRACTOR_POOL_FACTS) =>
    /\ NoDuplicates(options)
    /\ NoDuplicates([k \in 1..Len(deduped) |-> deduped[k].fact])

\* C3 witness: the first and the second hit of the same wall are both returned
C3_Witness ==
  /\ Returned
  /\ call.true_facts \in ExtractedInputs
  /\ call.pool_facts = DISTRACTOR_POOL_FACTS
  /\ call.tense = CONDITIONAL
  /\ Len(deduped) = 2
  /\ deduped[1].fact = OptionFactS("first_wall_hit", "grey-orange-wall")
  /\ deduped[2].fact = OptionFactS("second_wall_hit", "grey-orange-wall")

\* C4: with total >= 1 and num_correct >= 1, for any true_facts and pool,
\* len(options) <= total and 1 <= len(ground_truth) <= num_correct.
C4_Cardinality ==
  (Returned /\ call.total >= 1 /\ call.num_correct >= 1) =>
    /\ Len(options) <= call.total
    /\ 1 <= Len(ground_truth)
    /\ Len(ground_truth) <= call.num_correct

\* C4 witness: a repeated true fact is chosen twice and survives once, next to
\* one distractor
C4_Witness ==
  /\ Returned
  /\ call.total = 3
  /\ call.num_correct = 2
  /\ ~NoDuplicates(chosen_true)
  /\ Len(ground_truth) = 1
  /\ Len(distractors) = 1
  /\ Len(options) = 2

C6_ChosenIsMin ==
  pc # "choose_true" =>
    Len(chosen_true)
      = Min(Min(call.num_correct, Len(call.true_facts)), call.total)

\* C6 amended: the number of facts chosen as correct is
\* max(1, min(num_correct, max(1, len(true_facts)), total)): at least one fact
\* is always chosen, also with total = 0 or num_correct = 0.
C6_ChosenIsClampedMin ==
  pc # "choose_true" =>
    Len(chosen_true)
      = Max(1, Min(Min(call.num_correct, Max(1, Len(call.true_facts))),
                   call.total))

\* C6 witness: a call with total = 0 has chosen one fact as correct
C6_Witness ==
  /\ Returned
  /\ call.total = 0
  /\ call.num_correct = 2
  /\ Len(call.true_facts) >= 2
  /\ Len(chosen_true) = 1
  /\ ground_truth = <<0>>

\* C7: when true_facts consists only of not_pocketed the result is ([], []).
C7_OnlyNotPocketedGivesEmpty ==
  (Returned /\ call.true_facts = <<OptionFact("not_pocketed")>>) =>
    (options = <<>> /\ ground_truth = <<>>)

\* C8: when the true facts state that the ball was pocketed no option is the
\* not_pocketed statement, and no returned distractor contradicts a chosen
\* true fact.
C8_NoContradictingDistractor ==
  Returned =>
    /\ HasKind(true_facts, {"pocketed", "pocketed_in"}) =>
         _not_pocketed(call.tense) \notin Range(options)
    /\ \A k \in 1..Len(deduped) :
         ~deduped[k].is_correct =>
           _is_consistent_distractor(deduped[k].fact, chosen_true)

(***************************************************************************)
(* Claims about facts_from_outcome.                                        *)
(***************************************************************************)
\* C9: for num_wall_hits >= 2 the extractor emits
\* hits_same_wall_n_times(num_wall_hits) when len(wall_hits) = num_wall_hits
\* and all names are identical, and otherwise hits_n_diff_walls(d) with d the
\* number of unique names in wall_hits.
C9_DistinctNameCount ==
  (fpc = "done" /\ outcomes.num_wall_hits >= 2) =>
    IF /\ Len(outcomes.wall_hits) = outcomes.num_wall_hits
       /\ Cardinality(Range(outcomes.wall_hits)) = 1
      THEN OptionFactN("hits_same_wall_n_times", outcomes.num_wall_hits)
             \in Range(facts)
      ELSE OptionFactN("hits_n_diff_walls", Cardinality(Range(outcomes.wall_hits)))
             \in Range(facts)

\* C10: the returned fact list never holds pocketed or pocketed_in together
\* with not_pocketed, and never holds hits_0_walls together with a positive
\* wall-hit fact, whatever num_wall_hits and wall_hits are.
C10_MutuallyExclusive ==
  fpc = "done" =>
    /\ ~(HasKind(facts, {"pocketed", "pocketed_in"})
           /\ HasKind(facts, {"not_pocketed"}))
    /\ ~(HasKind(facts, {"hits_0_walls"})
           /\ HasKind(facts, {"hits_1_wall", "hits_n_diff_walls",
                              "hits_same_wall_n_times", "first_wall_hit",
                              "second_wall_hit", "third_wall_hit"}))

WallCountKinds ==
  {"hits_0_walls", "hits_1_wall", "hits_n_diff_walls", "hits_same_wall_n_times"}

OrderKinds == {"first_wall_hit", "second_wall_hit", "third_wall_hit"}

PocketKinds == {"pocketed", "pocketed_in", "not_pocketed"}

\* The facts of fs whose kind is in kinds, in list order.
OfKinds(fs, kinds) == SelectSeq(fs, LAMBDA f : f.kind \in kinds)

\* C11: whatever integer num_wall_hits holds, the extractor emits exactly one
\* wall-count fact: hits_0_walls for 0, hits_1_wall for 1, and one of
\* hits_n_diff_walls(n) / hits_same_wall_n_times(n) for 2 or more.
C11_ExactlyOneWallCountFact ==
  fpc = "done" =>
    LET count == OfKinds(facts, WallCountKinds)
        n == outcomes.num_wall_hits
    IN /\ Len(count) = 1
       /\ n = 0 => count[1].kind = "hits_0_walls"
       /\ n = 1 => count[1].kind = "hits_1_wall"
       /\ n >= 2 => count[1].kind \in {"hits_n_diff_walls",
                                        "hits_same_wall_n_times"}

\* C12: the extractor emits an order-position fact for exactly the first
\* min(3, len(wall_hits)) entries of wall_hits, each carrying the wall name at
\* that position, and no fact for a fourth or later hit.
C12_OrderFactsForFirstThree ==
  fpc = "done" =>
    LET order == OfKinds(facts, OrderKinds)
        w == outcomes.wall_hits
        kindAt == <<"first_wall_hit", "second_wall_hit", "third_wall_hit">>
    IN /\ Len(order) = Min(3, Len(w))
       /\ \A i \in 1..Len(order) : order[i] = OptionFactS(kindAt[i], w[i])
       /\ \A i \in 1..Len(facts) :
            facts[i].kind \in PocketKinds \cup WallCountKinds \cup OrderKinds

C12_Witness ==
  /\ fpc = "done"
  /\ Len(outcomes.wall_hits) = 4
  /\ outcomes.wall_hits[1] # outcomes.wall_hits[2]
  /\ outcomes.wall_hits[4] \notin
       {outcomes.wall_hits[1], outcomes.wall_hits[2], outcomes.wall_hits[3]}
  /\ Len(OfKinds(facts, OrderKinds)) = 3

\* The group a fact belongs to: pocket facts, wall-count facts, order facts.
FactGroup(f) ==
  IF f.kind \in PocketKinds THEN 1
  ELSE IF f.kind \in WallCountKinds THEN 2 ELSE 3

\* C13: the returned list is never empty, holds no fact twice, keeps the
\* order pocket facts, wall-count fact, order facts; and an outcome carrying
\* no information yields not_pocketed followed by a wall-count fact.
C13_NonEmptyUniqueOrdered ==
  fpc = "done" =>
    /\ facts # <<>>
    /\ NoDuplicates(facts)
    /\ \A i, j \in 1..Len(facts) :
         i < j => FactGroup(facts[i]) <= FactGroup(facts[j])
    /\ (/\ outcomes.num_wall_hits = 0
        /\ outcomes.wall_hits = <<>>
        /\ ~outcomes.pocketed
        /\ outcomes.pocket_color = None)
         => facts = <<OptionFact("not_pocketed"), OptionFact("hits_0_walls")>>

C13_Witness ==
  /\ fpc = "done"
  /\ ~outcomes.pocketed
  /\ outcomes.num_wall_hits < 0
  /\ outcomes.wall_hits = <<>>
  /\ facts = <<OptionFact("not_pocketed")>>

(***************************************************************************)
(* data_utils.py: extract_cue_wall_hits                                    *)
(*                                                                         *)
(* JSON values are modelled with their Python type made explicit:          *)
(*   - a cushion id is [kind, n]: an int n, the decimal string of n, or    *)
(*     null;                                                               *)
(*   - an event is [is_dict, ball_id, type, cushion_id, frame_kind, frame] *)
(*     where frame_kind says whether the "frame" key holds an int, is      *)
(*     absent, or holds null;                                              *)
(*   - the "events" field is [is_list, items], the "cushion" field is      *)
(*     [is_dict, map].                                                     *)
(***************************************************************************)
MaxEvents == 3

\* A cushion id as JSON carries it.
CushionId(kind, n) == [kind |-> kind, n |-> n]

\* line 29: str(cushion_id) if cushion_id is not None else None
cushion_id_str(cushion_id) ==
  IF cushion_id.kind # "none" THEN ToString(cushion_id.n) ELSE None

\* dict.get(key, default) on a map from strings
DictGet(map, key, default) ==
  IF key \in DOMAIN map THEN map[key] ELSE default

CUSHION_TYPES == {"linear_cushion", "circular_cushion"}

\* lines 21-26: the events the loop does not skip
IsCueCushionEvent(ev) ==
  /\ ev.is_dict
  /\ ev.ball_id = "cue"
  /\ ev.type \in CUSHION_TYPES

\* ev.get("frame", 0): an absent key reads 0, null stays null
EventFrame(ev) ==
  [null |-> ev.frame_kind = "null",
   n |-> IF ev.frame_kind = "int" THEN ev.frame ELSE 0]

\* lines 28-43: the hit built for one event
HitOfEvent(ev, cushion_map) ==
  [type |-> "wall",
   name |-> DictGet(cushion_map, cushion_id_str(ev.cushion_id), "unknown"),
   frame |-> EventFrame(ev),
   has_index |-> ev.cushion_id.kind # "none",
   index |-> ev.cushion_id.n]

\* lines 20-43
RECURSIVE CollectHits(_, _)
CollectHits(events, cushion_map) ==
  IF events = <<>> THEN <<>>
  ELSE LET rest == CollectHits(Tail(events), cushion_map)
       IN IF IsCueCushionEvent(Head(events))
            THEN <<HitOfEvent(Head(events), cushion_map)>> \o rest
            ELSE rest

\* A variant of the sort step that puts a hit before the hits of equal frame.
RECURSIVE InsertByFrame_BeforeEquals(_, _)
InsertByFrame_BeforeEquals(sorted, h) ==
  IF sorted = <<>> THEN <<h>>
  ELSE IF sorted[Len(sorted)].frame.n < h.frame.n THEN Append(sorted, h)
  ELSE Append(InsertByFrame_BeforeEquals(SubSeq(sorted, 1, Len(sorted) - 1), h),
              sorted[Len(sorted)])

\* line 45, one step of the stable sort: h goes after every hit whose frame
\* is not greater.
RECURSIVE InsertByFrame(_, _)
InsertByFrame(sorted, h) ==
  IF sorted = <<>> THEN <<h>>
  ELSE IF sorted[Len(sorted)].frame.n <= h.frame.n THEN Append(sorted, h)
  ELSE Append(InsertByFrame(SubSeq(sorted, 1, Len(sorted) - 1), h),
              sorted[Len(sorted)])

\* line 45: hits.sort(key=frame), stable
RECURSIVE SortByFrame(_)
SortByFrame(hits) ==
  IF hits = <<>> THEN <<>>
  ELSE InsertByFrame(SortByFrame(SubSeq(hits, 1, Len(hits) - 1)),
                     hits[Len(hits)])

\* line 45: comparing a null frame with any other frame raises TypeError;
\* a list of one hit is never compared.
SortRaises(hits) ==
  /\ Len(hits) >= 2
  /\ \E i \in 1..Len(hits) : hits[i].frame.null

\* lines 13-46. The result is [raised, hits]: raised tells that the call
\* ended in an exception instead of returning.
extract_cue_wall_hits(entry) ==
  IF ~entry.events.is_list \/ ~entry.cushion.is_dict
    THEN [raised |-> FALSE, hits |-> <<>>]
  ELSE LET hits == CollectHits(entry.events.items, entry.cushion.map)
       IN IF SortRaises(hits)
            THEN [raised |-> TRUE, hits |-> <<>>]
            ELSE [raised |-> FALSE, hits |-> SortByFrame(hits)]

(***************************************************************************)
(* Inputs of extract_cue_wall_hits.                                        *)
(***************************************************************************)
Event(ball_id, type, cushion_id, frame) ==
  [is_dict |-> TRUE, ball_id |-> ball_id, type |-> type,
   cushion_id |-> cushion_id, frame_kind |-> "int", frame |-> frame]

\* An entry of the event list that is not a dict.
NonDictEvent ==
  [is_dict |-> FALSE, ball_id |-> "", type |-> "", cushion_id |-> CushionId("none", 0),
   frame_kind |-> "missing", frame |-> 0]

\* A cue cushion event with neither "cushion_id" nor "frame".
BareCueEvent ==
  [is_dict |-> TRUE, ball_id |-> "cue", type |-> "linear_cushion",
   cushion_id |-> CushionId("none", 0), frame_kind |-> "missing", frame |-> 0]

\* A cue cushion event whose "frame" is null.
NullFrameCueEvent ==
  [is_dict |-> TRUE, ball_id |-> "cue", type |-> "linear_cushion",
   cushion_id |-> CushionId("int", 1), frame_kind |-> "null", frame |-> 0]

EventInputs ==
  {Event("cue", "linear_cushion", CushionId("int", 2), 10),
   Event("cue", "linear_cushion", CushionId("str", 1), 5),
   Event("cue", "circular_cushion", CushionId("int", 99), 5),
   Event("cue", "linear_cushion", CushionId("int", 4), 7),
   Event("dummy", "linear_cushion", CushionId("str", 1), 5),
   Event("cue", "other", CushionId("str", 2), 10),
   NonDictEvent, BareCueEvent, NullFrameCueEvent}

EventsField(items) == [is_list |-> TRUE, items |-> items]

\* "events" holding something that is not a list.
NonListEvents == [is_list |-> FALSE, items |-> <<>>]

\* The cushion table of the tests, with one id whose name is empty.
CushionTable ==
  [is_dict |-> TRUE,
   map |-> [k \in {"1", "2", "3", "4"} |->
              IF k = "1" THEN "red-green-wall"
              ELSE IF k = "2" THEN "blue-purple-wall"
              ELSE IF k = "3" THEN "orange-red-wall" ELSE ""]]

\* "cushion" absent: the default {}.
EmptyCushion == [is_dict |-> TRUE, map |-> [k \in {} |-> ""]]

\* "cushion" holding something that is not a dict.
NonDictCushion == [is_dict |-> FALSE, map |-> [k \in {} |-> ""]]

CushionInputs == {CushionTable, EmptyCushion, NonDictCushion}

SimEntries ==
  [events : {EventsField(items) : items \in SeqsUpTo(EventInputs, MaxEvents)}
              \cup {NonListEvents},
   cushion : CushionInputs]

HitsInit ==
  /\ sim_entry \in SimEntries
  /\ cue_hits = <<>>
  /\ hpc = "call"
  /\ IndexIdle
  /\ GenIdle

\* cue_hits = extract_cue_wall_hits(sim_entry)
ExtractHits ==
  /\ hpc = "call"
  /\ cue_hits' = extract_cue_wall_hits(sim_entry)
  /\ hpc' = IF cue_hits'.raised THEN "raised" ELSE "done"
  /\ UNCHANGED <<sim_entry, indexVars, genVars>>
  /\ UNCHANGED <<factVars, samplerVars, restVars>>

HitsNext == ExtractHits

InitHits == HitsInit /\ FactsIdle /\ SamplerIdle /\ RestIdle

SpecHits == InitHits /\ [][HitsNext]_vars

(***************************************************************************)
(* Claims about extract_cue_wall_hits.                                     *)
(***************************************************************************)
\* The raw events of the entry: the items of "events" when it is a list.
RawEvents == IF sim_entry.events.is_list THEN sim_entry.events.items ELSE <<>>

\* Positions of the raw events with ball_id "cue" and a cushion type.
CueCushionPositions ==
  {i \in 1..Len(RawEvents) :
     /\ RawEvents[i].is_dict
     /\ RawEvents[i].ball_id = "cue"
     /\ RawEvents[i].type \in {"linear_cushion", "circular_cushion"}}

\* The wall name the cushion table gives an event, "unknown" without entry.
TableName(ev) ==
  LET key == IF ev.cushion_id.kind = "none" THEN None
             ELSE ToString(ev.cushion_id.n)
  IN IF key \in DOMAIN sim_entry.cushion.map
       THEN sim_entry.cushion.map[key] ELSE "unknown"

\* The returned hits are the cue cushion events, one hit each, named through
\* the table, in ascending frame order with ties in raw order.
HitsAreSortedCueCushionEvents ==
  \E f \in [1..Len(cue_hits.hits) -> CueCushionPositions] :
    /\ \A p \in CueCushionPositions : \E i \in DOMAIN f : f[i] = p
    /\ \A i, j \in DOMAIN f : i # j => f[i] # f[j]
    /\ \A i \in DOMAIN f :
         /\ cue_hits.hits[i].type = "wall"
         /\ cue_hits.hits[i].name = TableName(RawEvents[f[i]])
         /\ cue_hits.hits[i].frame.null = (RawEvents[f[i]].frame_kind = "null")
         /\ RawEvents[f[i]].frame_kind = "int" =>
              cue_hits.hits[i].frame.n = RawEvents[f[i]].frame
         /\ RawEvents[f[i]].frame_kind = "missing" =>
              cue_hits.hits[i].frame.n = 0
    /\ \A i, j \in DOMAIN f :
         i < j =>
           \/ cue_hits.hits[i].frame.n < cue_hits.hits[j].frame.n
           \/ /\ cue_hits.hits[i].frame.n = cue_hits.hits[j].frame.n
              /\ f[i] < f[j]

Abs(n) == IF n < 0 THEN -n ELSE n

\* The sign of double(a/den) - a/den for a > 0 and den 1000 or 10000.  With
\* e the scale of the 53-bit significand (2^52 <= (a/den) * 2^e < 2^53), the
\* significand is a * 2^e / den rounded to the nearest integer, so the
\* double lies above the decimal iff the remainder of a * 2^e by den exceeds
\* den/2; remainder 0 is an exact double, and remainder den/2 cannot occur
\* because 16 divides 2^e and den, and not den/2.
DoubleError(a, den) ==
  LET RECURSIVE Pow2Mod(_), ShiftUp(_, _), ShiftDown(_, _)
      \* 2^e modulo den
      Pow2Mod(e) == IF e = 0 THEN 1 ELSE (2 * Pow2Mod(e - 1)) % den
      \* the least j with b * 2^j >= den
      ShiftUp(b, j) == IF b >= den THEN j ELSE ShiftUp(2 * b, j + 1)
      \* the greatest k with den * 2^k <= b
      ShiftDown(b, k) == IF b < 2 * den THEN k ELSE ShiftDown(b \div 2, k + 1)
      MantissaShift ==
        IF a >= den THEN 52 - ShiftDown(a, 0) ELSE 52 + ShiftUp(a, 0)
      r == ((a % den) * Pow2Mod(MantissaShift)) % den
  IN IF r = 0 THEN 0 ELSE IF 2 * r > den THEN 1 ELSE -1

\* round(x, 2) of the double x nearest to t/1000, as hundredths (line 111).
\* round() rounds the exact binary value: a decimal tie (third decimal 5)
\* goes the way the double's error points, and to the even neighbour only
\* when the double is the tie exactly (0.125, 0.375, ...).
Round2(t) ==
  LET q == Abs(t) \div 10
      r == Abs(t) % 10
      m == IF r > 5 THEN q + 1
           ELSE IF r < 5 THEN q
           ELSE IF DoubleError(Abs(t), 1000) = 1 THEN q + 1
           ELSE IF DoubleError(Abs(t), 1000) = -1 THEN q
           ELSE IF q % 2 = 0 THEN q ELSE q + 1
  IN IF t < 0 THEN -m ELSE m

\* lines 104-111: a raise in lines 106-108 zeroes all three components
round_components(arr) ==
  LET at(k) == IF arr.kind = "list" /\ Len(arr.comps) >= k
                 THEN arr.comps[k] ELSE 0
  IN <<Round2(at(1)), Round2(at(2)), Round2(at(3))>>

\* "shot_" followed by the decimal digits of i
SynthesizedVideo(i) == <<"shot_" \o ToString(i)>>

\* lines 85-89: a or b or c on strings
ResolveVideo(i, raw) ==
  IF raw.video # <<>> THEN raw.video
  ELSE IF raw.metadata.shape = "dict" /\ raw.metadata.shot_id # <<>>
    THEN raw.metadata.shot_id
  ELSE SynthesizedVideo(i)

\* lines 91-92
CueOf(raw) ==
  IF raw.balls.is_dict THEN raw.balls.cue
  ELSE [shape |-> "none", initial_position |-> raw.position,
        initial_velocity |-> raw.velocity, outcomes |-> raw.outcomes]

\* lines 94-102: where position, velocity and outcomes are read from
CueFields(raw) ==
  IF CueOf(raw).shape = "none"
    THEN [position |-> raw.position, velocity |-> raw.velocity,
          outcomes |-> raw.outcomes]
    ELSE [position |-> CueOf(raw).initial_position,
          velocity |-> CueOf(raw).initial_velocity,
          outcomes |-> CueOf(raw).outcomes]

\* lines 118-122: the truthy names of the derived hits
HitNames(hits_detail) ==
  LET named == SelectSeq(hits_detail,
                         LAMBDA h : h.type = "wall" /\ Truthy(h.name))
  IN [k \in 1..Len(named) |-> named[k].name]

\* lines 129-135
PocketColor(outcomes_raw) ==
  IF ~outcomes_raw.is_dict THEN None
  ELSE IF outcomes_raw.pocket.kind \in {"dict", "str"}
    THEN outcomes_raw.pocket.color
  ELSE IF outcomes_raw.pocket.kind = "int"
    THEN ToString(outcomes_raw.pocket.n)
  ELSE None

\* lines 138-140: outcomes_raw.get("wall_hits", outcomes_raw.get("num_wall_hits"))
StoredHits(outcomes_raw) ==
  IF outcomes_raw.wall_hits.kind # "missing" THEN outcomes_raw.wall_hits
  ELSE outcomes_raw.num_wall_hits

\* A variant that never reads the legacy count.
NumWallHits_IgnoreStored(wall_hits, outcomes_raw) == Len(wall_hits)

\* line 143: int(stored_hits) raises OverflowError on an infinite float,
\* which line 144 does not catch.
StoredHitsOverflow(wall_hits, outcomes_raw) ==
  /\ Len(wall_hits) = 0
  /\ outcomes_raw.is_dict
  /\ StoredHits(outcomes_raw).kind = "overflow"

\* lines 126, 137-145: the count assigned when line 143 does not raise
\* past line 144 (see StoredHitsOverflow)
NumWallHits(wall_hits, outcomes_raw) ==
  IF Len(wall_hits) = 0 /\ outcomes_raw.is_dict
       /\ StoredHits(outcomes_raw).kind = "int"
    THEN StoredHits(outcomes_raw).n
    ELSE Len(wall_hits)

\* The statements that raise: .get on a metadata value that is not a dict
\* (line 87, or line 151 when "video" is set), .get on a cue value that is
\* not a dict (line 100), the sort in extract_cue_wall_hits (line 117),
\* int() of an infinite legacy count (line 143).
NormalizeRaises(raw) ==
  \/ raw.metadata.shape = "bad"
  \/ CueOf(raw).shape = "bad"
  \/ extract_cue_wall_hits(raw).raised
  \/ StoredHitsOverflow(HitNames(extract_cue_wall_hits(raw).hits),
                        CueFields(raw).outcomes)

\* lines 150-151: meta.get("total_frames", 0)
TotalFrames(raw) ==
  IF raw.metadata.shape = "dict" /\ raw.metadata.frames_kind # "missing"
    THEN [null |-> raw.metadata.frames_kind = "null",
          n |-> IF raw.metadata.frames_kind = "int"
                  THEN raw.metadata.total_frames ELSE 0]
    ELSE [null |-> FALSE, n |-> 0]

\* lines 84-163: the normalized entry of record i
Normalize(i, raw) ==
  LET f == CueFields(raw)
      wall_hits_detail == extract_cue_wall_hits(raw).hits
      wall_hits == HitNames(wall_hits_detail)
      pocketed == f.outcomes.is_dict /\ f.outcomes.pocket.kind # "none"
  IN [video |-> ResolveVideo(i, raw),
      initial_state |-> [position |-> round_components(f.position),
                         velocity |-> round_components(f.velocity)],
      outcomes |-> [num_wall_hits |-> NumWallHits(wall_hits, f.outcomes),
                    wall_hits |-> wall_hits,
                    pocketed |-> pocketed,
                    which_pocket |-> IF pocketed THEN f.outcomes.pocket
                                     ELSE [kind |-> "none", color |-> None,
                                           n |-> 0],
                    pocket_color |-> PocketColor(f.outcomes)],
      hits_detail |-> wall_hits_detail,
      total_frames |-> TotalFrames(raw)]

\* A variant that puts the new id in front of the bucket.
BucketAppend_Prepend(buckets, key, i) ==
  IF key \in DOMAIN buckets
    THEN [buckets EXCEPT ![key] = <<i>> \o @]
    ELSE buckets @@ (key :> <<i>>)

\* lines 170-171: defaultdict(list)[key].append(i)
BucketAppend(buckets, key, i) ==
  IF key \in DOMAIN buckets
    THEN [buckets EXCEPT ![key] = Append(@, i)]
    ELSE buckets @@ (key :> <<i>>)

EmptyMap == [k \in {} |-> <<>>]

\* lines 78-81
EmptyIndex ==
  [raised |-> FALSE, id_to_entry |-> EmptyMap, index_by_pos_vel |-> EmptyMap,
   pos_to_ids |-> EmptyMap, vel_to_ids |-> EmptyMap]

\* The call ended in an exception: nothing is returned.
RaisedIndex == [EmptyIndex EXCEPT !.raised = TRUE]

\* lines 83-171: the four maps after the first k records
RECURSIVE IndexUpTo(_, _)
IndexUpTo(data, k) ==
  IF k = 0 THEN EmptyIndex
  ELSE LET prev == IndexUpTo(data, k - 1)
           i == k - 1
           raw == data[k]
       IN IF prev.raised \/ NormalizeRaises(raw) THEN RaisedIndex
          ELSE LET norm == Normalize(i, raw)
                   key == <<norm.initial_state.position,
                            norm.initial_state.velocity>>
               IN [raised |-> FALSE,
                   id_to_entry |-> prev.id_to_entry @@ (i :> norm),
                   index_by_pos_vel |->
                     IF key \in DOMAIN prev.index_by_pos_vel
                       THEN prev.index_by_pos_vel
                       ELSE prev.index_by_pos_vel @@ (key :> i),
                   pos_to_ids |->
                     BucketAppend(prev.pos_to_ids,
                                  norm.initial_state.position, i),
                   vel_to_ids |->
                     BucketAppend(prev.vel_to_ids,
                                  norm.initial_state.velocity, i)]

\* lines 69-173
make_index(data) == IndexUpTo(data, Len(data))

(***************************************************************************)
(* data_utils.py: find_velocity_cfs, find_position_cfs                     *)
(***************************************************************************)
\* A variant that keeps the ids whose velocity equals the query's.
find_velocity_cfs_Unfiltered(pos, vel, pos_to_ids, id2entry, n) ==
  LET candidates == DictGet(pos_to_ids, pos, <<>>)
  IN IF candidates = <<>> THEN {<<>>}
     ELSE Arrangements(candidates, Min(n, Len(candidates)))

\* lines 186-194: the lists random.sample can return
find_velocity_cfs(pos, vel, pos_to_ids, id2entry, n) ==
  LET candidates ==
        SelectSeq(DictGet(pos_to_ids, pos, <<>>),
                  LAMBDA i : id2entry[i].initial_state.velocity # vel)
  IN IF candidates = <<>> THEN {<<>>}
     ELSE Arrangements(candidates, Min(n, Len(candidates)))

\* lines 207-215
find_position_cfs(pos, vel, vel_to_ids, id2entry, n) ==
  LET candidates ==
        SelectSeq(DictGet(vel_to_ids, vel, <<>>),
                  LAMBDA i : id2entry[i].initial_state.position # pos)
  IN IF candidates = <<>> THEN {<<>>}
     ELSE Arrangements(candidates, Min(n, Len(candidates)))

(***************************************************************************)
(* Raw records.                                                            *)
(***************************************************************************)
MaxShots == 3

MaxCfs == 2

\* A vector field: "missing", a "list" (comps = float() of its items, in
\* thousandths), or "bad" (lines 106-108 raise on it).
Vec(kind, comps) == [kind |-> kind, comps |-> comps]

\* A legacy count field: "missing", "null", "int" (n = int(value)), "bad"
\* (int() raises TypeError or ValueError: 'many', [1], nan) or "overflow"
\* (int() raises OverflowError: the floats inf and -inf).
Count(kind, n) == [kind |-> kind, n |-> n]

\* The "pocket" field: null ("none"), a color "str", a "dict" with a color,
\* or an "int".
Pocket(kind, color, n) == [kind |-> kind, color |-> color, n |-> n]

OutcomesRaw(pocket, wall_hits, num_wall_hits) ==
  [is_dict |-> TRUE, pocket |-> pocket, wall_hits |-> wall_hits,
   num_wall_hits |-> num_wall_hits]

\* "outcomes" absent: the default {}.
NoOutcomesRaw == OutcomesRaw(Pocket("none", None, 0), Count("missing", 0), Count("missing", 0))

\* "outcomes" holding something that is not a dict.
NonDictOutcomes == [NoOutcomesRaw EXCEPT !.is_dict = FALSE]

\* The "metadata" field: shape "none" (absent, null or {}), "dict", or "bad"
\* (a non-empty value of another type).
Metadata(shape, shot_id, frames_kind, total_frames) ==
  [shape |-> shape, shot_id |-> shot_id, frames_kind |-> frames_kind,
   total_frames |-> total_frames]

Cue(shape, pos, vel, outcomes_raw) ==
  [shape |-> shape, initial_position |-> pos, initial_velocity |-> vel,
   outcomes |-> outcomes_raw]

NoCue == Cue("none", Vec("missing", <<>>), Vec("missing", <<>>), NoOutcomesRaw)

\* A record in one of four layouts: "cue" keeps position, velocity and
\* outcomes in balls.cue; "legacy" has no "balls" and keeps them at top
\* level; "nondict_balls" is legacy with "balls" of another type; "bad_cue"
\* has balls.cue of another type than dict.
Raw(layout, video, metadata, pos, vel, outcomes_raw, events, cushion) ==
  [video |-> video,
   metadata |-> metadata,
   balls |-> [is_dict |-> layout # "nondict_balls",
              cue |-> IF layout = "cue" THEN Cue("dict", pos, vel, outcomes_raw)
                      ELSE IF layout = "bad_cue"
                        THEN Cue("bad", Vec("missing", <<>>), Vec("missing", <<>>), NoOutcomesRaw)
                      ELSE NoCue],
   position |-> IF layout = "cue" THEN Vec("missing", <<>>) ELSE pos,
   velocity |-> IF layout = "cue" THEN Vec("missing", <<>>) ELSE vel,
   outcomes |-> IF layout = "cue" THEN NoOutcomesRaw ELSE outcomes_raw,
   events |-> events,
   cushion |-> cushion]

\* test_generator_pipeline.py: the shot with hits at frames 10, 60, 80
ThreeHitEvents ==
  EventsField(<<Event("cue", "linear_cushion", CushionId("str", 1), 10),
                Event("cue", "linear_cushion", CushionId("str", 2), 60),
                Event("cue", "linear_cushion", CushionId("str", 3), 80)>>)

ShotWithHits ==
  Raw("cue", <<>>, Metadata("dict", <<"sim_test_2">>, "int", 100),
      Vec("list", <<300, 400, 0>>), Vec("list", <<500, -500, 0>>),
      OutcomesRaw(Pocket("none", None, 0), Count("int", 3), Count("missing", 0)),
      ThreeHitEvents, CushionTable)

\* test_generator_pipeline.py: _build_cf_sim_data
CfShot(shot_id, pos, vel, pocket, wall_hits) ==
  Raw("cue", <<>>, Metadata("dict", <<shot_id>>, "int", 10), Vec("list", pos), Vec("list", vel),
      OutcomesRaw(pocket, Count("int", wall_hits), Count("missing", 0)),
      EventsField(<<>>), EmptyCushion)

CfA == CfShot("cf_a", <<100, 200, 0>>, <<1000, 0, 0>>, Pocket("str", "orange", 0), 1)

CfB == CfShot("cf_b", <<100, 200, 0>>, <<0, 1000, 0>>, Pocket("none", None, 0), 2)

CfC == CfShot("cf_c", <<500, 500, 0>>, <<1000, 0, 0>>, Pocket("str", "gray", 0), 0)

\* A shot whose unrounded state differs from cf_a and cf_b in the third
\* decimal only, under an explicit video file name.
NearA ==
  Raw("cue", <<"near_a", ".mp4">>, Metadata("none", <<>>, "missing", 0),
      Vec("list", <<104, 196, 1>>), Vec("list", <<4, 996, -4>>),
      OutcomesRaw(Pocket("dict", "gray", 0), Count("missing", 0), Count("missing", 0)),
      EventsField(<<>>), EmptyCushion)

\* A legacy record at cf_a's position: two-component vectors, no metadata.
LegacyShot ==
  Raw("legacy", <<>>, Metadata("none", <<>>, "missing", 0), Vec("list", <<100, 200>>), Vec("list", <<0, -1000>>),
      OutcomesRaw(Pocket("none", None, 0), Count("missing", 0), Count("int", 2)),
      EventsField(<<>>), EmptyCushion)

\* A shot whose components are decimal ties: round() takes 0.105 to 0.1,
\* 0.195 to 0.2, 1.005 to 1.0 and 0.005 to 0.01, so it shares cf_a's
\* position and differs from cf_a in velocity.
TieShot == CfShot("tie", <<105, 195, 0>>, <<1005, 5, 0>>, Pocket("none", None, 0), 0)

ShotInputs == {CfA, CfB, CfC, NearA, LegacyShot, TieShot}

\* Rounded positions and velocities to query the matcher with.
QueryPositions == {<<10, 20, 0>>, <<50, 50, 0>>, <<0, 0, 0>>}

QueryVelocities == {<<100, 0, 0>>, <<0, 100, 0>>, <<0, 0, 0>>}

(***************************************************************************)
(* make_index followed by one matcher call.                                *)
(***************************************************************************)
IndexInit ==
  /\ sim_data \in SeqsUpTo(ShotInputs, MaxShots)
  /\ index = <<>>
  /\ ipc = "call"
  /\ cf_query = <<>>
  /\ cf_ids = <<>>
  /\ HitsIdle
  /\ GenIdle

\* index = make_index(sim_data)
MakeIndex ==
  /\ ipc = "call"
  /\ index' = make_index(sim_data)
  /\ ipc' = IF index'.raised THEN "raised" ELSE "indexed"
  /\ UNCHANGED <<sim_data, cf_query, cf_ids, hitVars, genVars>>
  /\ UNCHANGED <<factVars, samplerVars, restVars>>

\* cf_ids = find_velocity_cfs(pos, vel, pos_to_ids, id2entry, n)
FindVelocityCfs ==
  /\ ipc = "indexed"
  /\ \E pos \in QueryPositions, vel \in QueryVelocities, n \in 1..MaxCfs :
       /\ cf_query' = [pos |-> pos, vel |-> vel, n |-> n]
       /\ cf_ids' \in find_velocity_cfs(pos, vel, index.pos_to_ids,
                                        index.id_to_entry, n)
  /\ ipc' = "found_velocity"
  /\ UNCHANGED <<sim_data, index, hitVars, genVars>>
  /\ UNCHANGED <<factVars, samplerVars, restVars>>

\* cf_ids = find_position_cfs(pos, vel, vel_to_ids, id2entry, n)
FindPositionCfs ==
  /\ ipc = "indexed"
  /\ \E pos \in QueryPositions, vel \in QueryVelocities, n \in 1..MaxCfs :
       /\ cf_query' = [pos |-> pos, vel |-> vel, n |-> n]
       /\ cf_ids' \in find_position_cfs(pos, vel, index.vel_to_ids,
                                        index.id_to_entry, n)
  /\ ipc' = "found_position"
  /\ UNCHANGED <<sim_data, index, hitVars, genVars>>
  /\ UNCHANGED <<factVars, samplerVars, restVars>>

IndexNext == MakeIndex \/ FindVelocityCfs \/ FindPositionCfs

InitIndex == IndexInit /\ FactsIdle /\ SamplerIdle /\ RestIdle

SpecIndex == InitIndex /\ [][IndexNext]_vars

(***************************************************************************)
(* Claims about make_index and the matcher.                                *)
(***************************************************************************)
Ids == 0..(Len(sim_data) - 1)

Indexed == ipc \in {"indexed", "found_velocity", "found_position"}

EntryPos(i) == index.id_to_entry[i].initial_state.position

EntryVel(i) == index.id_to_entry[i].initial_state.velocity

\* The <<key, place>> pairs at which id i is stored in a bucket map.
Occurrences(buckets, i) ==
  {kp \in UNION {{<<k, p>> : p \in DOMAIN buckets[k]} : k \in DOMAIN buckets} :
     buckets[kp[1]][kp[2]] = i}

Ascending(s) == \A p, q \in DOMAIN s : p < q => s[p] < s[q]

\* The shots matching a velocity query: same rounded position, other
\* rounded velocity.
VelocityMatches ==
  {i \in Ids : EntryPos(i) = cf_query.pos /\ EntryVel(i) # cf_query.vel}

PositionMatches ==
  {i \in Ids : EntryVel(i) = cf_query.vel /\ EntryPos(i) # cf_query.pos}

\* cf_ids holds min(n, |C|) pairwise distinct members of C.
SampleOf(C) ==
  /\ Len(cf_ids) = Min(cf_query.n, Cardinality(C))
  /\ NoDuplicates(cf_ids)
  /\ Range(cf_ids) \subseteq C
  /\ cf_ids = <<>> <=> C = {}

\* C14: find_velocity_cfs with n >= 1 returns exactly min(n, |C|) pairwise
\* distinct ids of C, the shots stored under pos whose rounded velocity
\* differs from vel: each has the query's rounded position and another
\* velocity, a shot whose own state is the query is never returned, and the
\* result is empty exactly when C is; find_position_cfs is symmetric.
C14_MatcherSamplesCandidates ==
  /\ ipc = "found_velocity" =>
       /\ SampleOf(VelocityMatches)
       /\ \A i \in Ids :
            (EntryPos(i) = cf_query.pos /\ EntryVel(i) = cf_query.vel)
              => i \notin Range(cf_ids)
  /\ ipc = "found_position" =>
       /\ SampleOf(PositionMatches)
       /\ \A i \in Ids :
            (EntryPos(i) = cf_query.pos /\ EntryVel(i) = cf_query.vel)
              => i \notin Range(cf_ids)

C14_Witness ==
  /\ ipc = "found_velocity"
  /\ cf_query.n = 1
  /\ Cardinality(VelocityMatches) = 2
  /\ Len(cf_ids) = 1
  /\ \E i \in Ids : EntryPos(i) = cf_query.pos /\ EntryVel(i) = cf_query.vel

\* C15: after make_index over N records every sim_id 0..N-1 is stored
\* exactly once in pos_to_ids and exactly once in vel_to_ids, under its own
\* rounded position and velocity; two shots share a bucket exactly when the
\* rounded tuples are identical; every bucket lists its ids in ascending
\* input order.
C15_EveryIdFiledOnce ==
  Indexed =>
    /\ DOMAIN index.id_to_entry = Ids
    /\ \A i \in Ids :
         /\ Cardinality(Occurrences(index.pos_to_ids, i)) = 1
         /\ Cardinality(Occurrences(index.vel_to_ids, i)) = 1
         /\ i \in Range(index.pos_to_ids[EntryPos(i)])
         /\ i \in Range(index.vel_to_ids[EntryVel(i)])
    /\ \A i, j \in Ids :
         /\ (\E k \in DOMAIN index.pos_to_ids :
               {i, j} \subseteq Range(index.pos_to_ids[k]))
              <=> EntryPos(i) = EntryPos(j)
         /\ (\E k \in DOMAIN index.vel_to_ids :
               {i, j} \subseteq Range(index.vel_to_ids[k]))
              <=> EntryVel(i) = EntryVel(j)
    /\ \A k \in DOMAIN index.pos_to_ids : Ascending(index.pos_to_ids[k])
    /\ \A k \in DOMAIN index.vel_to_ids : Ascending(index.vel_to_ids[k])

C15_Witness ==
  /\ ipc = "indexed"
  /\ sim_data = <<CfB, CfC, NearA>>
  /\ index.pos_to_ids[<<10, 20, 0>>] = <<0, 2>>
  /\ index.vel_to_ids[<<0, 100, 0>>] = <<0, 2>>
  /\ index.pos_to_ids[<<50, 50, 0>>] = <<1>>

(***************************************************************************)
(* make_index over one record of any shape.                                *)
(***************************************************************************)
Layouts == {"cue", "legacy", "nondict_balls", "bad_cue"}

VideoInputs == {<<>>, <<"clip_7", ".mp4">>}

MetadataInputs ==
  {Metadata("none", <<>>, "missing", 0), Metadata("bad", <<>>, "missing", 0),
   Metadata("dict", <<"shot_2048">>, "int", 100), Metadata("dict", <<>>, "null", 0)}

\* test_data_utils.py line 108: [0.38, 1.66, 0.03] after rounding; a one-item
\* list; ['1.5', '2']; three decimal ties whose doubles lie above (0.005),
\* below (0.015) and below (2.675) the tie; three more (-0.995 below, the
\* exact 0.125 and 0.375).
PositionInputs ==
  {Vec("list", <<384, 1657, 29>>), Vec("list", <<104>>), Vec("list", <<1500, 2000>>),
   Vec("list", <<5, 15, 2675>>), Vec("list", <<-995, 125, 375>>), Vec("bad", <<>>), Vec("missing", <<>>)}

OutcomeInputs ==
  {OutcomesRaw(p, c[1], c[2]) :
     p \in {Pocket("none", None, 0), Pocket("str", "orange", 0), Pocket("dict", None, 0), Pocket("int", None, 3)},
     c \in {<<Count("missing", 0), Count("missing", 0)>>, <<Count("missing", 0), Count("int", 2)>>,
            <<Count("null", 0), Count("int", 2)>>, <<Count("int", 1), Count("int", 2)>>,
            <<Count("int", -1), Count("missing", 0)>>, <<Count("bad", 0), Count("missing", 0)>>,
            <<Count("overflow", 0), Count("missing", 0)>>, <<Count("missing", 0), Count("overflow", 0)>>}}
    \cup {NonDictOutcomes}

\* Cue hits whose raw order is not their frame order, one without table entry.
UnsortedHitEvents ==
  EventsField(<<Event("cue", "linear_cushion", CushionId("int", 2), 10),
                Event("cue", "circular_cushion", CushionId("int", 99), 5),
                Event("dummy", "linear_cushion", CushionId("int", 3), 1),
                Event("cue", "linear_cushion", CushionId("str", 1), 5)>>)

EventListInputs ==
  {EventsField(<<>>), ThreeHitEvents, UnsortedHitEvents, NonListEvents,
   EventsField(<<Event("cue", "linear_cushion", CushionId("int", 4), 7)>>),
   EventsField(<<NullFrameCueEvent>>),
   EventsField(<<NullFrameCueEvent,
                 Event("cue", "linear_cushion", CushionId("int", 2), 10)>>)}

RawInputs ==
  {Raw(layout, video, metadata, pos, Vec("list", <<2284, -946, 0>>), o, ev, cu) :
     layout \in Layouts, video \in VideoInputs, metadata \in MetadataInputs,
     pos \in PositionInputs, o \in OutcomeInputs, ev \in EventListInputs,
     cu \in {CushionTable, NonDictCushion}}

NormalizeInit ==
  /\ sim_data \in {<<raw>> : raw \in RawInputs}
  /\ index = <<>>
  /\ ipc = "call"
  /\ cf_query = <<>>
  /\ cf_ids = <<>>
  /\ HitsIdle
  /\ GenIdle

NormalizeNext == MakeIndex

InitNormalize == NormalizeInit /\ FactsIdle /\ SamplerIdle /\ RestIdle

SpecNormalize == InitNormalize /\ [][NormalizeNext]_vars

(***************************************************************************)
(* Claims about make_index on one record.                                  *)
(***************************************************************************)
\* The record given to make_index and the entry it returned for it.
TheRaw == sim_data[1]

TheEntry == index.id_to_entry[0]

\* The record holds at least one raw cue cushion event.
HasCueWallEvent ==
  /\ TheRaw.events.is_list
  /\ \E k \in DOMAIN TheRaw.events.items :
       /\ TheRaw.events.items[k].is_dict
       /\ TheRaw.events.items[k].ball_id = "cue"
       /\ TheRaw.events.items[k].type \in {"linear_cushion", "circular_cushion"}

NamesOf(hits) == [k \in DOMAIN hits |-> hits[k].name]

\* The derived hits whose name is neither null nor empty.
NamedHits ==
  SelectSeq(TheEntry.hits_detail, LAMBDA h : h.name # None /\ h.name # "")

\* The outcome summary make_index reads and the legacy count in it, with
\* "wall_hits" taking precedence over "num_wall_hits".
Summary == CueFields(TheRaw).outcomes

LegacyCount ==
  IF Summary.wall_hits.kind # "missing" THEN Summary.wall_hits
  ELSE Summary.num_wall_hits

\* C17 as stated: whenever at least one cue wall event exists, wall_hits is
\* the list of the derived hits' wall names in frame order and num_wall_hits
\* its length, whatever the raw count says; when the raw event list is empty
\* and a legacy wall_hits count exists, num_wall_hits is that count and
\* wall_hits is empty.
C17_WallHitsFromDerivedHits ==
  (ipc = "indexed" /\ Len(sim_data) = 1) =>
    /\ HasCueWallEvent =>
         /\ TheEntry.outcomes.wall_hits = NamesOf(TheEntry.hits_detail)
         /\ TheEntry.outcomes.wall_hits # <<>>
         /\ TheEntry.outcomes.num_wall_hits = Len(TheEntry.outcomes.wall_hits)
    /\ (/\ TheRaw.events = EventsField(<<>>)
        /\ Summary.is_dict
        /\ Summary.wall_hits.kind = "int") =>
         /\ TheEntry.outcomes.num_wall_hits = Summary.wall_hits.n
         /\ TheEntry.outcomes.wall_hits = <<>>

\* C17 amended: wall_hits is the list of the non-empty wall names of the
\* derived hits in frame order; when that list is not empty num_wall_hits is
\* its length whatever the raw count says; when it is empty (no event, no
\* derived hit, or only hits with an empty name) num_wall_hits is the legacy
\* count of the outcome summary if it holds an integer one, and 0 otherwise.
C17_WallHitsFromNamedHits ==
  (ipc = "indexed" /\ Len(sim_data) = 1) =>
    /\ TheEntry.outcomes.wall_hits = NamesOf(NamedHits)
    /\ NamedHits # <<>> =>
         TheEntry.outcomes.num_wall_hits = Len(NamedHits)
    /\ NamedHits = <<>> =>
         TheEntry.outcomes.num_wall_hits =
           IF Summary.is_dict /\ LegacyCount.kind = "int"
             THEN LegacyCount.n ELSE 0

C17_Witness ==
  /\ ipc = "indexed"
  /\ TheRaw.events = UnsortedHitEvents
  /\ TheRaw.cushion = CushionTable
  /\ Summary.is_dict
  /\ Summary.wall_hits = Count("int", 1)
  /\ TheEntry.outcomes.wall_hits =
       <<"unknown", "red-green-wall", "blue-purple-wall">>
  /\ TheEntry.outcomes.num_wall_hits = 3

\* C18: make_index never raises on a malformed record (missing or wrong-typed
\* balls, cue, outcomes, events, cushion table or metadata, short or
\* non-numeric vectors, events without a usable frame); it returns an entry
\* whose missing or malformed vector is all 0.0 and, when the outcome is
\* missing, pocketed is false and num_wall_hits is 0.
C18_NeverRaises ==
  (ipc \in {"indexed", "raised"} /\ Len(sim_data) = 1) =>
    /\ ipc = "indexed"
    /\ CueFields(TheRaw).position.kind # "list" =>
         TheEntry.initial_state.position = <<0, 0, 0>>
    /\ (~Summary.is_dict /\ ~HasCueWallEvent) =>
         /\ ~TheEntry.outcomes.pocketed
         /\ TheEntry.outcomes.num_wall_hits = 0

(***************************************************************************)
(* generator.py: generate_sft_mcq_multilabel                               *)
(*                                                                         *)
(* predictive_filter_fraction is given in quarters (2 = 0.5), so that the  *)
(* product with a frame count is exact, as it is in binary floating point. *)
(* A video string is a sequence of tokens in which ".mp4" and "_partial"   *)
(* are tokens of their own and no other token contains either.             *)
(***************************************************************************)
MaxGenShots == 2

MaxWideShots == 1

\* options.py lines 387-436: the (options, ground_truth) pairs one call of
\* sample_multilabel_from_facts can return
sample_multilabel_from_facts(tf0, pool, total, nc0, tense) ==
  LET tf == FallbackTrueFacts(tf0)
      nc == ClampNumCorrect(nc0, tf, total)
      DrawDistractors(chosen) ==
        LET cands == distractor_candidates(pool, chosen)
        IN random_sample(cands, Min(num_distractors_needed(total, nc),
                                    Len(cands)))
      Results(chosen, ds) ==
        {[options |-> RenderAll(d, tense), ground_truth |-> GroundTruth(d)] :
           d \in Shuffles(DedupLabeled(Labeled(chosen, ds)))}
  IN UNION {UNION {Results(chosen, ds) : ds \in DrawDistractors(chosen)} :
              chosen \in random_sample(tf, nc)}

\* A float is a sign and a magnitude in ten-thousandths; [neg |-> TRUE,
\* mag |-> 0] is the negative zero.
Float(neg, mag) == [neg |-> neg, mag |-> mag]

\* The float of a value in hundredths, as round(x, 2) leaves it.
FloatOf(h) == Float(h < 0, 100 * Abs(h))

Floats(coord) == [k \in DOMAIN coord |-> FloatOf(coord[k])]

Digits == <<"0", "1", "2", "3", "4", "5", "6", "7", "8", "9">>

\* data_utils.py line 224: "{v:.2f}" formats the exact binary value: a
\* decimal tie goes the way the double's error points, and to the even
\* digit when the double is the tie exactly; the sign of a negative value
\* is kept even when the digits round to zero
Fixed2(v) ==
  LET q == v.mag \div 100
      r == v.mag % 100
      m == IF r > 50 THEN q + 1
           ELSE IF r < 50 THEN q
           ELSE IF DoubleError(v.mag, 10000) = 1 THEN q + 1
           ELSE IF DoubleError(v.mag, 10000) = -1 THEN q
           ELSE IF q % 2 = 0 THEN q ELSE q + 1
  IN (IF v.neg THEN "-" ELSE "") \o ToString(m \div 100) \o "."
       \o Digits[((m % 100) \div 10) + 1] \o Digits[(m % 10) + 1]

\* A variant that formats small values as they are.
ZeroSmall_Keep(v) == v

\* data_utils.py lines 222-223: "v if abs(v) >= 0.005 else 0.0"
ZeroSmall(v) == IF v.mag >= 50 THEN v ELSE Float(FALSE, 0)

\* data_utils.py lines 218-224
coord_to_str(coord, prefix) ==
  "(" \o prefix \o "x=" \o Fixed2(ZeroSmall(coord[1])) \o ", " \o prefix
    \o "y=" \o Fixed2(ZeroSmall(coord[2])) \o ")"

\* lines 67-76
context_text ==
  "The pool table has a width of 0.9906 and a height of 1.9812. "
  \o "Pockets are marked by colored squares near them. Pocket locations: red at (0, 0), green at "
  \o "(0.9906, 0), orange at (0, 0.9906), blue at (0.9906, 0.9906), gray at (0, 1.9812), and purple at (0.9906, 1.9812). "
  \o "Walls are named by the colors of the two pockets they connect "
  \o "(e.g., the 'red-green' wall is between the red and green pockets). "
  \o "Answer the following question by considering the cue ball (white) movements on the pool table."

\* The metadata fields a question type does not set.
NoCounterfactual ==
  [counterfactual_sim_id |-> -1, counterfactual_video |-> <<>>,
   counterfactual_initial_state |-> [position |-> <<>>, velocity |-> <<>>]]

\* lines 101-113, 162-174, 201-217, 243-259: one appended example
Example(video, question, sample, question_type, id, q_idx, cf) ==
  [video |-> video, question |-> question, options |-> sample.options,
   ground_truth |-> sample.ground_truth,
   metadata |-> [question_type |-> question_type, sim_id |-> id,
                 question_index_within_shot |-> q_idx,
                 counterfactual_sim_id |-> cf.counterfactual_sim_id,
                 counterfactual_video |-> cf.counterfactual_video,
                 counterfactual_initial_state |->
                   cf.counterfactual_initial_state]]

\* A variant that emits degenerate examples too.
Emitted_Always(example) == <<example>>

\* lines 94-95, 154-155: "if not options_list or not ground_indices: continue"
Emitted(example) ==
  IF example.options = <<>> \/ example.ground_truth = <<>>
    THEN <<>> ELSE <<example>>

\* A variant that never stops repeating.
StopsRepeating_Never(q_idx, tf) == FALSE

\* lines 82-83 and 144-145: "if q_idx > 0 and len(true_facts) <= num_correct:
\* break"
StopsRepeating(q_idx, tf) == q_idx > 0 /\ Len(tf) <= gen_args.num_correct

\* A variant that renders every question type in the base tense.
VariantTense_AlwaysBase(question_type) == BASE

\* lines 89, 151, 190 and 232: the tense argument of each question type
VariantTense(question_type) ==
  CASE question_type = "descriptive" -> BASE
    [] question_type = "predictive" -> FUTURE
    [] OTHER -> CONDITIONAL

\* A variant that puts new examples in front of the earlier ones.
Extend_AtFront(out, examples) == examples \o out

\* lines 101, 162, 201 and 243: out_dataset.append, once per example
Extend(out, examples) == out \o examples

\* lines 81-113 and 143-174: the examples the loop over q_idx can append,
\* from question q_idx on
RECURSIVE QuestionLoop(_, _, _, _, _, _, _, _)
QuestionLoop(q_idx, count, tf, tense, video, question, question_type, id) ==
  IF q_idx >= count \/ StopsRepeating(q_idx, tf)
    THEN {<<>>}
    ELSE {Emitted(Example(video, question, s, question_type, id, q_idx,
                          NoCounterfactual)) \o rest :
            s \in sample_multilabel_from_facts(tf, pool_facts,
                                               gen_args.num_options,
                                               gen_args.num_correct, tense),
            rest \in QuestionLoop(q_idx + 1, count, tf, tense, video, question,
                                  question_type, id)}

\* A variant that takes the whole frame count as the threshold.
ThresholdFrames_NoFraction(quarters, total_frames) ==
  IF total_frames # 0 THEN 4 * total_frames ELSE 0

\* lines 117-126: threshold_frames, in quarter frames
ThresholdFrames(quarters, total_frames) ==
  IF total_frames # 0 THEN quarters * total_frames ELSE 0

\* lines 127-133
FilteredHits(hits_detail, quarters, total_frames) ==
  SelectSeq(hits_detail,
            LAMBDA h : /\ h.type = "wall"
                       /\ 4 * h.frame.n >=
                            ThresholdFrames(quarters, total_frames))

\* line 132: comparing a null frame with the threshold raises TypeError
FilterRaises(hits_detail) ==
  \E k \in DOMAIN hits_detail : hits_detail[k].frame.null

\* lines 134-139
FilteredOutcomes(entry, quarters) ==
  LET hits == FilteredHits(entry.hits_detail, quarters, entry.total_frames.n)
      wall_hits == [k \in DOMAIN hits |-> hits[k].name]
  IN [entry.outcomes EXCEPT !.num_wall_hits = Len(wall_hits),
                            !.wall_hits = wall_hits]

\* A variant in which filtered_outcomes is the entry's own dict.
OutcomesAfterFilter_Aliased(entry, filtered) == filtered

\* lines 137-139: filtered_outcomes = dict(base_outcomes) is a new dict, so
\* the two assignments to its keys leave the entry's outcomes as they were
OutcomesAfterFilter(entry, filtered) == entry.outcomes

\* line 164: video.replace(".mp4", "_partial.mp4")
RECURSIVE ReplaceMp4(_)
ReplaceMp4(video) ==
  IF video = <<>> THEN <<>>
  ELSE (IF Head(video) = ".mp4" THEN <<"_partial", ".mp4">>
        ELSE <<Head(video)>>) \o ReplaceMp4(Tail(video))

\* lines 195-200 and 237-242: question_text, varying "velocity" or
\* "position"
CounterfactualQuestion(varying, entry, cf_entry) ==
  IF varying = "velocity"
    THEN "Context: " \o context_text
         \o "\nQuestion: If the initial velocity were changed from "
         \o coord_to_str(Floats(entry.initial_state.velocity), "d") \o " to "
         \o coord_to_str(Floats(cf_entry.initial_state.velocity), "d")
         \o " (assume all other variables are unchanged), what would happen?"
    ELSE "Context: " \o context_text
         \o "\nQuestion: If the initial ball position were changed from "
         \o coord_to_str(Floats(entry.initial_state.position), "") \o " to "
         \o coord_to_str(Floats(cf_entry.initial_state.position), "")
         \o " (assume all other variables are unchanged), what would happen?"

\* A variant that takes the facts of the shot the question is about.
CounterfactualFacts_OfQueriedShot(entry, cf_entry) ==
  facts_from_outcome(entry.outcomes)

\* lines 183-184 and 225-226: cf_true_facts
CounterfactualFacts(entry, cf_entry) == facts_from_outcome(cf_entry.outcomes)

\* lines 181-217 and 223-259: the examples the loop over the partner ids
\* can append
RECURSIVE CounterfactualLoop(_, _, _, _)
CounterfactualLoop(cf_id_list, varying, id, id2entry) ==
  IF cf_id_list = <<>> THEN {<<>>}
  ELSE LET cf_entry == id2entry[Head(cf_id_list)]
           cf == [counterfactual_sim_id |-> Head(cf_id_list),
                  counterfactual_video |-> cf_entry.video,
                  counterfactual_initial_state |-> cf_entry.initial_state]
           question == CounterfactualQuestion(varying, id2entry[id], cf_entry)
       IN {Emitted(Example(id2entry[id].video, question, s,
                           "counterfactual_" \o varying, id, -1, cf)) \o rest :
             s \in sample_multilabel_from_facts(
                     CounterfactualFacts(id2entry[id], cf_entry),
                     pool_facts, gen_args.num_options,
                     gen_args.num_correct,
                     VariantTense("counterfactual_" \o varying)),
             rest \in CounterfactualLoop(Tail(cf_id_list), varying, id,
                                         id2entry)}

(***************************************************************************)
(* Runs of generate_sft_mcq_multilabel.                                    *)
(***************************************************************************)
\* A shot with the velocity of the three-hit shot whose position differs
\* from that shot's in the z component only.
CfZ == CfShot("cf_z", <<300, 400, 50>>, <<500, -500, 0>>, Pocket("none", None, 0), 0)

GenShots == {ShotWithHits, CfA, CfB, CfZ, NearA, LegacyShot}

\* The keyword arguments of one run.
Args(num_options, nc, n_desc, n_pred, max_vel, max_pos, quarters) ==
  [num_options |-> num_options, num_correct |-> nc,
   num_descriptive_per_shot |-> n_desc,
   num_predictive_per_shot |-> n_pred,
   max_velocity_cfs_per_shot |-> max_vel,
   max_position_cfs_per_shot |-> max_pos,
   predictive_filter_quarters |-> quarters]

GenArgs ==
  {Args(1, 1, 1, 0, 0, 0, 2), Args(1, 1, 0, 1, 0, 0, 2),
   Args(1, 1, 0, 2, 0, 0, 0), Args(1, 2, 0, 2, 0, 0, 4),
   Args(1, 1, 0, 0, 1, 1, 2), Args(1, 1, 0, 0, 2, 0, 2),
   Args(1, 1, 1, 1, 1, 1, 2), Args(1, 2, 2, 0, 0, 0, 2),
   Args(2, 2, 0, 0, 1, 1, 2)}

\* Runs with a distractor next to the correct option, over at most
\* MaxWideShots shots.
WideArgs == {Args(2, 1, 1, 0, 0, 0, 2), Args(2, 1, 0, 1, 0, 0, 2)}

GenInit ==
  /\ gen_args \in GenArgs \cup WideArgs
  /\ sim_data \in SeqsUpTo(GenShots, IF gen_args \in WideArgs
                                       THEN MaxWideShots ELSE MaxGenShots)
  /\ index = <<>>
  /\ ipc = "call"
  /\ cf_query = <<>>
  /\ cf_ids = <<>>
  /\ sim_id = 0
  /\ filtered_outcomes = <<>>
  /\ out_dataset = <<>>
  /\ gpc = "make_index"
  /\ pool_facts = DISTRACTOR_POOL_FACTS
  /\ HitsIdle

\* The entry of the shot the loop is at, and the loop's step to the next shot.
Entry == index.id_to_entry[sim_id]

\* line 57
GenMakeIndex ==
  /\ gpc = "make_index"
  /\ index' = make_index(sim_data)
  /\ ipc' = IF index'.raised THEN "raised" ELSE "indexed"
  /\ gpc' = IF index'.raised THEN "raised"
            ELSE IF sim_data = <<>> THEN "return" ELSE "descriptive"
  /\ UNCHANGED <<sim_data, cf_query, cf_ids, gen_args, sim_id,
                 filtered_outcomes, out_dataset, pool_facts, hitVars>>
  /\ UNCHANGED <<factVars, samplerVars, restVars>>

\* lines 78-113
GenDescriptive ==
  /\ gpc = "descriptive"
  /\ \E examples \in
          IF gen_args.num_descriptive_per_shot > 0
            THEN QuestionLoop(0, gen_args.num_descriptive_per_shot,
                              facts_from_outcome(Entry.outcomes),
                              VariantTense("descriptive"),
                              Entry.video,
                              "Context: " \o context_text
                                \o "\nQuestion: What happened in this video?",
                              "descriptive", sim_id)
            ELSE {<<>>} :
       out_dataset' = Extend(out_dataset, examples)
  /\ gpc' = "predictive"
  /\ UNCHANGED <<indexVars, gen_args, sim_id, filtered_outcomes, pool_facts,
                 hitVars>>
  /\ UNCHANGED <<factVars, samplerVars, restVars>>

\* lines 115-174
GenPredictive ==
  /\ gpc = "predictive"
  /\ IF FilterRaises(Entry.hits_detail)
       THEN /\ gpc' = "raised"
            /\ UNCHANGED <<filtered_outcomes, out_dataset, index>>
       ELSE /\ filtered_outcomes' =
                 FilteredOutcomes(Entry, gen_args.predictive_filter_quarters)
            /\ index' = [index EXCEPT
                           !.id_to_entry[sim_id].outcomes =
                             OutcomesAfterFilter(Entry, filtered_outcomes')]
            /\ \E examples \in
                    IF gen_args.num_predictive_per_shot > 0
                      THEN QuestionLoop(
                             0, gen_args.num_predictive_per_shot,
                             facts_from_outcome(filtered_outcomes'),
                             VariantTense("predictive"),
                             ReplaceMp4(Entry.video),
                             "Context: " \o context_text
                               \o "\nQuestion: Based on the first part of the video, what will happen in "
                               \o "STRICTLY the second part of the video?",
                             "predictive", sim_id)
                      ELSE {<<>>} :
                 out_dataset' = Extend(out_dataset, examples)
            /\ gpc' = "velocity_cfs"
  /\ UNCHANGED <<sim_data, ipc, cf_query, cf_ids, gen_args, sim_id, pool_facts,
                 hitVars>>
  /\ UNCHANGED <<factVars, samplerVars, restVars>>

\* lines 177-217
GenVelocityCfs ==
  /\ gpc = "velocity_cfs"
  /\ \E vel_cf_ids \in
          IF gen_args.max_velocity_cfs_per_shot > 0
            THEN find_velocity_cfs(Entry.initial_state.position,
                                   Entry.initial_state.velocity,
                                   index.pos_to_ids, index.id_to_entry,
                                   gen_args.max_velocity_cfs_per_shot)
            ELSE {<<>>} :
       \E examples \in CounterfactualLoop(vel_cf_ids, "velocity", sim_id,
                                          index.id_to_entry) :
         out_dataset' = Extend(out_dataset, examples)
  /\ gpc' = "position_cfs"
  /\ UNCHANGED <<indexVars, gen_args, sim_id, filtered_outcomes, pool_facts,
                 hitVars>>
  /\ UNCHANGED <<factVars, samplerVars, restVars>>

\* lines 219-259, then line 61: the next shot, or line 261: return
GenPositionCfs ==
  /\ gpc = "position_cfs"
  /\ \E pos_cf_ids \in
          IF gen_args.max_position_cfs_per_shot > 0
            THEN find_position_cfs(Entry.initial_state.position,
                                   Entry.initial_state.velocity,
                                   index.vel_to_ids, index.id_to_entry,
                                   gen_args.max_position_cfs_per_shot)
            ELSE {<<>>} :
       \E examples \in CounterfactualLoop(pos_cf_ids, "position", sim_id,
                                          index.id_to_entry) :
         out_dataset' = Extend(out_dataset, examples)
  /\ IF sim_id + 1 < Len(sim_data)
       THEN sim_id' = sim_id + 1 /\ gpc' = "descriptive"
       ELSE sim_id' = sim_id /\ gpc' = "return"
  /\ UNCHANGED <<indexVars, gen_args, filtered_outcomes, pool_facts, hitVars>>
  /\ UNCHANGED <<factVars, samplerVars, restVars>>

GenNext ==
  \/ GenMakeIndex
  \/ GenDescriptive
  \/ GenPredictive
  \/ GenVelocityCfs
  \/ GenPositionCfs

InitGen == GenInit /\ FactsIdle /\ SamplerIdle /\ RestIdle

SpecGen == InitGen /\ [][GenNext]_vars

(***************************************************************************)
(* Claims about the predictive variant.                                    *)
(***************************************************************************)
\* The examples of question type t emitted so far for shot id.
ExamplesOf(t, id) ==
  SelectSeq(out_dataset,
            LAMBDA ex : ex.metadata.question_type = t /\ ex.metadata.sim_id = id)

\* The options an example marks as correct.
CorrectOptions(ex) ==
  {ex.options[k + 1] : k \in Range(ex.ground_truth)}

\* The hits of the current shot at or after the fraction of its frames.
SecondPartHits ==
  SelectSeq(Entry.hits_detail,
            LAMBDA h : 4 * h.frame.n >=
                         gen_args.predictive_filter_quarters
                           * Entry.total_frames.n)

\* The shot's outcome with the second-part hits in place of all hits.
SecondPartOutcome ==
  [Entry.outcomes EXCEPT
     !.wall_hits = [k \in DOMAIN SecondPartHits |-> SecondPartHits[k].name],
     !.num_wall_hits = Len(SecondPartHits)]

\* C19: the predictive variant's true facts are facts_from_outcome of the
\* shot's outcome with wall_hits replaced by the names, in order, of the hits
\* of hits_detail whose frame is >= predictive_filter_fraction * total_frames
\* and num_wall_hits by that list's length, the other fields unchanged; hits
\* at frames 10, 60, 80 of 100 frames with fraction 0.5 give the names at
\* frames 60 and 80.
C19_PredictiveFactsOfSecondPart ==
  gpc = "velocity_cfs" =>
    /\ filtered_outcomes = SecondPartOutcome
    /\ \A k \in DOMAIN ExamplesOf("predictive", sim_id) :
         CorrectOptions(ExamplesOf("predictive", sim_id)[k]) \subseteq
           {render(f, FUTURE) :
              f \in Range(facts_from_outcome(SecondPartOutcome))}
    /\ (/\ [k \in DOMAIN Entry.hits_detail |-> Entry.hits_detail[k].frame.n]
              = <<10, 60, 80>>
        /\ Entry.total_frames.n = 100
        /\ gen_args.predictive_filter_quarters = 2)
         => filtered_outcomes.wall_hits =
              <<Entry.hits_detail[2].name, Entry.hits_detail[3].name>>

C19_Witness ==
  /\ gpc = "velocity_cfs"
  /\ sim_data[sim_id + 1] = ShotWithHits
  /\ gen_args.predictive_filter_quarters = 2
  /\ filtered_outcomes.wall_hits = <<"blue-purple-wall", "orange-red-wall">>
  /\ filtered_outcomes.num_wall_hits = 2
  /\ Entry.outcomes.num_wall_hits = 3
  /\ ExamplesOf("predictive", sim_id) # <<>>

\* C20: every predictive record's video identifier contains "_partial",
\* whichever way make_index resolved the shot's video id: the explicit video
\* field, the metadata shot_id, or the synthesized shot_<i>.
C20_PredictiveVideoIsPartial ==
  \A k \in DOMAIN out_dataset :
    out_dataset[k].metadata.question_type = "predictive" =>
      "_partial" \in Range(out_dataset[k].video)

(***************************************************************************)
(* Claims about the records of one run.                                    *)
(***************************************************************************)
\* The shots whose questions have all been generated.
DoneShots ==
  IF gpc = "return" THEN 0..(Len(sim_data) - 1)
  ELSE IF gpc \in {"descriptive", "predictive", "velocity_cfs", "position_cfs"}
    THEN 0..(sim_id - 1)
  ELSE {}

\* The number of questions per shot requested of a repeated variant.
Requested(t) ==
  IF t = "descriptive" THEN gen_args.num_descriptive_per_shot
  ELSE gen_args.num_predictive_per_shot

\* The true facts of a repeated variant of shot id.
VariantFacts(t, id) ==
  IF t = "descriptive"
    THEN facts_from_outcome(index.id_to_entry[id].outcomes)
    ELSE facts_from_outcome(
           FilteredOutcomes(index.id_to_entry[id],
                            gen_args.predictive_filter_quarters))

QuestionIndices(recs) ==
  [j \in DOMAIN recs |-> recs[j].metadata.question_index_within_shot]

\* C21: for each shot and each of the descriptive and predictive variants
\* with k >= 1 questions requested, exactly k records are emitted when the
\* variant has more distinct true facts than num_correct and exactly 1
\* otherwise; their question_index_within_shot are 0, 1, ..., count-1.
C21_RepeatsStopOnTooFewFacts ==
  \A id \in DoneShots : \A t \in {"descriptive", "predictive"} :
    Requested(t) >= 1 =>
      LET recs == ExamplesOf(t, id)
          distinct == Cardinality(Range(VariantFacts(t, id)))
      IN /\ Len(recs) = IF distinct > gen_args.num_correct
                          THEN Requested(t) ELSE 1
         /\ QuestionIndices(recs) = [j \in 1..Len(recs) |-> j - 1]

C21_Witness ==
  /\ gpc = "return"
  /\ \E t \in {"descriptive", "predictive"} : \E id1, id2 \in DoneShots :
       /\ Requested(t) = 2
       /\ QuestionIndices(ExamplesOf(t, id1)) = <<0, 1>>
       /\ QuestionIndices(ExamplesOf(t, id2)) = <<0>>
       /\ Cardinality(Range(VariantFacts(t, id2))) = gen_args.num_correct

\* Every fact a record of the run can render: the pool and the facts of
\* every shot's outcome, whole and filtered.
RunFacts ==
  Range(pool_facts)
  \cup UNION {Range(VariantFacts(t, id)) :
                t \in {"descriptive", "predictive"}, id \in DOMAIN index.id_to_entry}

RenderingsIn(tense) == {render(f, tense) : f \in RunFacts}

\* C22: every option of a descriptive record is rendered in BASE tense, of a
\* predictive record in FUTURE tense, of a counterfactual_velocity or
\* counterfactual_position record in CONDITIONAL tense; no record mixes
\* tenses among its options.
C22_OneTensePerQuestionType ==
  \A k \in DOMAIN out_dataset :
    LET t == out_dataset[k].metadata.question_type
        tense == IF t = "descriptive" THEN BASE
                 ELSE IF t = "predictive" THEN FUTURE
                 ELSE CONDITIONAL
    IN /\ t \in {"descriptive", "predictive", "counterfactual_velocity",
                 "counterfactual_position"}
       /\ Range(out_dataset[k].options) \subseteq RenderingsIn(tense)
       /\ \A other \in Tense \ {tense} :
            Range(out_dataset[k].options) \cap RenderingsIn(other) = {}

C22_Witness ==
  /\ gpc = "return"
  /\ \E j \in DOMAIN out_dataset :
       /\ out_dataset[j].metadata.question_type = "counterfactual_position"
       /\ Len(out_dataset[j].options) = 2
       /\ Range(out_dataset[j].options) \subseteq RenderingsIn(CONDITIONAL)

\* The conditional renderings of the facts of shot id's own outcome.
OwnConditional(id) ==
  {render(f, CONDITIONAL) :
     f \in Range(facts_from_outcome(index.id_to_entry[id].outcomes))}

\* C23: a counterfactual_velocity record of shot s names a partner p # s
\* with the same rounded position and a different rounded velocity; its
\* correct options are facts of p's own outcome, and counterfactual_video
\* and counterfactual_initial_state are p's video and initial state.
\* counterfactual_position records are symmetric: same rounded velocity,
\* different rounded position.
C23_CounterfactualRecordsDescribePartner ==
  \A k \in DOMAIN out_dataset :
    LET ex == out_dataset[k]
        t == ex.metadata.question_type
        s == ex.metadata.sim_id
        p == ex.metadata.counterfactual_sim_id
        S == index.id_to_entry[s].initial_state
        P == index.id_to_entry[p].initial_state
    IN t \in {"counterfactual_velocity", "counterfactual_position"} =>
         /\ p \in DOMAIN index.id_to_entry
         /\ p # s
         /\ IF t = "counterfactual_velocity"
              THEN P.position = S.position /\ P.velocity # S.velocity
              ELSE P.velocity = S.velocity /\ P.position # S.position
         /\ CorrectOptions(ex) # {}
         /\ CorrectOptions(ex) \subseteq OwnConditional(p)
         /\ ex.metadata.counterfactual_video = index.id_to_entry[p].video
         /\ ex.metadata.counterfactual_initial_state = P

C23_Witness ==
  \E k \in DOMAIN out_dataset :
    /\ out_dataset[k].metadata.question_type = "counterfactual_velocity"
    /\ out_dataset[k].metadata.counterfactual_sim_id = 0
    /\ out_dataset[k].metadata.sim_id = 1
    /\ CorrectOptions(out_dataset[k]) \cap OwnConditional(1) = {}
    /\ CorrectOptions(out_dataset[k]) \subseteq OwnConditional(0)

QuestionTypes ==
  {"descriptive", "predictive", "counterfactual_velocity",
   "counterfactual_position"}

\* Sampler results with empty options or empty ground_truth, and one with
\* neither.
DegenerateSamples ==
  {[options |-> <<>>, ground_truth |-> <<>>],
   [options |-> <<"The ball was not pocketed">>, ground_truth |-> <<>>],
   [options |-> <<>>, ground_truth |-> <<0>>]}

FullSample ==
  [options |-> <<"The ball was not pocketed">>, ground_truth |-> <<0>>]

\* What the run holds after a variant of question type t whose sampler
\* result is s.
AfterVariant(t, s) ==
  Extend(out_dataset,
         Emitted(Example(<<"shot_0">>, context_text, s, t, 0, 0,
                         NoCounterfactual)))

\* C24: every returned record has a non-empty options list, a non-empty
\* ground_truth list and a question_type among the four; a variant whose
\* sampler result has empty options or empty ground_truth contributes no
\* record, and generation goes on.
C24_NoDegenerateRecord ==
  /\ \A k \in DOMAIN out_dataset :
       /\ out_dataset[k].options # <<>>
       /\ out_dataset[k].ground_truth # <<>>
       /\ out_dataset[k].metadata.question_type \in QuestionTypes
  /\ \A t \in QuestionTypes :
       /\ \A s \in DegenerateSamples : AfterVariant(t, s) = out_dataset
       /\ Len(AfterVariant(t, FullSample)) = Len(out_dataset) + 1

C24_Witness ==
  /\ gpc = "return"
  /\ {"descriptive", "predictive", "counterfactual_velocity"}
       \subseteq {out_dataset[k].metadata.question_type :
                    k \in DOMAIN out_dataset}
  /\ \A s \in DegenerateSamples :
       AfterVariant("descriptive", s) = out_dataset

Generating ==
  gpc \in {"descriptive", "predictive", "velocity_cfs", "position_cfs",
           "return"}

\* The conditional renderings of the facts of an outcome.
ConditionalOf(outcome) ==
  {render(f, CONDITIONAL) : f \in Range(facts_from_outcome(outcome))}

\* The counterfactual records whose partner was processed before their own
\* shot.
LaterUses ==
  {k \in DOMAIN out_dataset :
     /\ out_dataset[k].metadata.counterfactual_sim_id >= 0
     /\ out_dataset[k].metadata.counterfactual_sim_id
          < out_dataset[k].metadata.sim_id}

\* C28: after make_index returns no step modifies shared data: every
\* normalized entry (its outcomes.wall_hits and num_wall_hits included),
\* pos_to_ids, vel_to_ids and DISTRACTOR_POOL_FACTS stay as they were, so a
\* shot used as a partner after its own predictive question was built
\* contributes its whole outcome.
C28_SharedDataUnchanged ==
  Generating =>
    /\ index = make_index(sim_data)
    /\ pool_facts = DISTRACTOR_POOL_FACTS
    /\ \A k \in LaterUses :
         CorrectOptions(out_dataset[k]) \subseteq
           ConditionalOf(
             Normalize(out_dataset[k].metadata.counterfactual_sim_id,
                       sim_data[out_dataset[k].metadata.counterfactual_sim_id
                                  + 1]).outcomes)

C28_Witness ==
  /\ gpc = "return"
  /\ sim_data = <<ShotWithHits, CfZ>>
  /\ ExamplesOf("predictive", 0) # <<>>
  /\ index.id_to_entry[0].outcomes.num_wall_hits = 3
  /\ FilteredOutcomes(index.id_to_entry[0],
                      gen_args.predictive_filter_quarters).num_wall_hits = 2
  /\ \E k \in LaterUses :
       /\ out_dataset[k].metadata.question_type = "counterfactual_position"
       /\ CorrectOptions(out_dataset[k]) \cap
            ConditionalOf(FilteredOutcomes(
                            index.id_to_entry[0],
                            gen_args.predictive_filter_quarters)) = {}

\* The position of a question type in the fixed order of a shot's variants.
VariantRank(t) ==
  CASE t = "descriptive" -> 0
    [] t = "predictive" -> 1
    [] t = "counterfactual_velocity" -> 2
    [] OTHER -> 3

\* Record a may come before record b.
MayPrecede(a, b) ==
  \/ a.sim_id < b.sim_id
  \/ /\ a.sim_id = b.sim_id
     /\ \/ VariantRank(a.question_type) < VariantRank(b.question_type)
        \/ /\ a.question_type = b.question_type
           /\ \/ VariantRank(a.question_type) >= 2
              \/ a.question_index_within_shot < b.question_index_within_shot

\* C29: records are grouped by source shot in ascending sim_id order, and
\* within one shot in the order descriptive (by question index), predictive
\* (by question index), counterfactual_velocity, counterfactual_position: no
\* record of a later shot precedes one of an earlier shot and no variant of
\* a shot precedes an earlier variant of the same shot.
C29_RecordsInShotAndVariantOrder ==
  \A i, j \in DOMAIN out_dataset :
    i < j => MayPrecede(out_dataset[i].metadata, out_dataset[j].metadata)

C29_Witness ==
  /\ gpc = "return"
  /\ Len(out_dataset) >= 6
  /\ [k \in 1..3 |-> out_dataset[k].metadata.question_type]
       = <<"descriptive", "predictive", "counterfactual_velocity">>
  /\ out_dataset[1].metadata.sim_id = 0
  /\ out_dataset[Len(out_dataset)].metadata.sim_id = 1

\* The "from" and "to" strings of the question of a counterfactual record.
FromString(ex) ==
  LET S == index.id_to_entry[ex.metadata.sim_id].initial_state
  IN IF ex.metadata.question_type = "counterfactual_velocity"
       THEN coord_to_str(Floats(S.velocity), "d")
       ELSE coord_to_str(Floats(S.position), "")

ToStringOf(ex) ==
  LET P == ex.metadata.counterfactual_initial_state
  IN IF ex.metadata.question_type = "counterfactual_velocity"
       THEN coord_to_str(Floats(P.velocity), "d")
       ELSE coord_to_str(Floats(P.position), "")

\* C30: in every counterfactual_velocity record the "from" velocity string
\* of the question differs from its "to" velocity string, and in every
\* counterfactual_position record the "from" position string differs from
\* the "to" position string, for any pair of shots the matcher can pair,
\* shots whose rounded vectors differ in z only included.
C30_QuestionStatesAChange ==
  \A k \in DOMAIN out_dataset :
    out_dataset[k].metadata.question_type
        \in {"counterfactual_velocity", "counterfactual_position"} =>
      FromString(out_dataset[k]) # ToStringOf(out_dataset[k])

(***************************************************************************)
(* Calls of coord_to_str.                                                  *)
(***************************************************************************)
\* 0, 0.0001, 0.004, 0.0049, 0.005, 0.0051, 0.015, 0.025, 0.035, 0.125, 0.375,
\* 1.234, 2.5: among them ties whose doubles lie above, below and on the tie
CoordMags == {0, 1, 40, 49, 50, 51, 150, 250, 350, 1250, 3750, 12340, 25000}

FloatInputs == {Float(neg, mag) : neg \in BOOLEAN, mag \in CoordMags}

CoordCalls ==
  {[coord |-> <<x, y, Float(FALSE, 0)>>, prefix |-> p] :
     x \in FloatInputs, y \in FloatInputs, p \in {"", "d"}}

CoordInit ==
  /\ coord_call \in CoordCalls
  /\ coord_str = ""
  /\ HitsIdle
  /\ IndexIdle
  /\ GenIdle
  /\ MainIdle

\* coord_str = coord_to_str(coord, prefix)
CoordToStr ==
  /\ coord_str = ""
  /\ coord_str' = coord_to_str(coord_call.coord, coord_call.prefix)
  /\ UNCHANGED <<coord_call, hitVars, indexVars, genVars, mainVars>>
  /\ UNCHANGED <<factVars, samplerVars>>

CoordNext == CoordToStr

InitCoord == CoordInit /\ FactsIdle /\ SamplerIdle

SpecCoord == InitCoord /\ [][CoordNext]_vars

(***************************************************************************)
(* Claims about coord_to_str.                                              *)
(***************************************************************************)
\* A signed number of hundredths written with two decimals.
Decimal2(neg, m) ==
  (IF neg THEN "-" ELSE "") \o ToString(m \div 100) \o "."
    \o Digits[((m % 100) \div 10) + 1] \o Digits[(m % 10) + 1]

\* The two-decimal strings that may stand for a component: 0.00 below
\* 0.005, else the nearest hundredth (either neighbour at a decimal tie)
\* under the component's sign.
Shown(v) ==
  LET q == v.mag \div 100
      r == v.mag % 100
  IN IF v.mag < 50 THEN {"0.00"}
     ELSE {Decimal2(v.neg, m) :
             m \in IF r < 50 THEN {q} ELSE IF r > 50 THEN {q + 1}
                   ELSE {q, q + 1}}

CoordText(p, X, Y) ==
  "(" \o p \o "x=" \o X \o ", " \o p \o "y=" \o Y \o ")"

\* C26: coord_to_str renders the x and y components with exactly two
\* decimals; a component of magnitude below 0.005 (0.0001, -0.004, negative
\* zero) is displayed as 0.00 and never as -0.00, 1.234 as 1.23 and -2.5 as
\* -2.50.
C26_TwoDecimalsNoNegativeZero ==
  coord_str # "" =>
    LET c == coord_call.coord
        p == coord_call.prefix
    IN /\ \E X \in Shown(c[1]) \ {"-0.00"}, Y \in Shown(c[2]) \ {"-0.00"} :
            coord_str = CoordText(p, X, Y)
       /\ (c[1] = Float(FALSE, 12340) /\ c[2] = Float(TRUE, 25000))
            => coord_str = CoordText(p, "1.23", "-2.50")
       /\ (c[1] \in {Float(FALSE, 1), Float(TRUE, 0)}
             /\ c[2] = Float(TRUE, 40))
            => coord_str = CoordText(p, "0.00", "0.00")

C26_Witness ==
  /\ coord_call.coord[1] = Float(TRUE, 0)
  /\ coord_call.coord[2] = Float(TRUE, 40)
  /\ coord_call.prefix = ""
  /\ coord_str = "(x=0.00, y=0.00)"

(***************************************************************************)
(* Claims about the distractors of sample_multilabel_from_facts.           *)
(***************************************************************************)
Drawn == pc \in {"shuffle", "return"}

\* The pool facts that are not in the chosen-true set, in pool order.
Candidates ==
  SelectSeq(call.pool_facts, LAMBDA f : f \notin Range(chosen_true))

\* The number of positions of s that hold f.
CountIn(s, f) == Cardinality({i \in DOMAIN s : s[i] = f})

\* s holds entries of distinct positions of t.
DrawnWithoutReplacement(s, t) ==
  \A f \in Range(s) : CountIn(s, f) <= CountIn(t, f)

\* The draws the next step can make, before the distractors are drawn.
PossibleDraws(n) == random_sample(Candidates, n)

\* C27: the distractor candidates are exactly the pool facts not in the
\* chosen-true set, with no consistency filter, and
\* min(total - num_correct, number of candidates) of them are drawn without
\* replacement; every such pool fact, the negation of a chosen true fact
\* included, can appear as a distractor in some execution.
C27_DistractorsUnfiltered ==
  /\ Drawn =>
       /\ Len(distractors) = Min(call.total - num_correct, Len(Candidates))
       /\ DrawnWithoutReplacement(distractors, Candidates)
  /\ pc = "choose_distractors" =>
       LET n == Min(call.total - num_correct, Len(Candidates))
       IN n >= 1 =>
            \A f \in Range(Candidates) :
              \E ds \in PossibleDraws(n) : f \in Range(ds)

\* C27 amended: the number drawn is min(max(0, total - num_correct), number
\* of candidates), which is 0 and not -1 when total is 0 (num_correct is
\* then 1); the rest as stated.
C27_DistractorsUnfilteredClamped ==
  /\ Drawn =>
       /\ Len(distractors) =
            Min(Max(0, call.total - num_correct), Len(Candidates))
       /\ DrawnWithoutReplacement(distractors, Candidates)
  /\ pc = "choose_distractors" =>
       LET n == Min(Max(0, call.total - num_correct), Len(Candidates))
       IN n >= 1 =>
            \A f \in Range(Candidates) :
              \E ds \in PossibleDraws(n) : f \in Range(ds)

C27_Witness ==
  /\ Drawn
  /\ call.pool_facts = DISTRACTOR_POOL_FACTS
  /\ OptionFact("pocketed") \in Range(chosen_true)
  /\ distractors = <<OptionFact("not_pocketed")>>

(***************************************************************************)
(* question_gen.py main: runs under a seed.                                *)
(*                                                                         *)
(* The random module is CPython's: the generator is the Mersenne Twister   *)
(* MT19937 of _randommodule.c (init_genrand, init_by_array,                *)
(* genrand_uint32), random.seed(a) keys it with the 32-bit words of |a|,   *)
(* and Random._randbelow, Random.sample (for k up to 5) and                *)
(* Random.shuffle are those of random.py.  A 32-bit word is a pair         *)
(* <<hi, lo>> of 16-bit halves.  The state is [mt, mti]: the 624 words     *)
(* and the position of the next one.  A word is regenerated when it is     *)
(* read; the C code regenerates the 624 words together when the first of   *)
(* them is read, which gives the same words.                               *)
(***************************************************************************)
MaxSeed == 3

MaxRuns == 2

MaxMainShots == 2

Word(hi, lo) == <<hi, lo>>

\* The word of an integer 0 <= n < 2^31.
WordOf(n) == Word(n \div 65536, n % 65536)

\* a ^ b bit by bit
RECURSIVE XorBits(_, _)
XorBits(a, b) ==
  IF a = 0 THEN b ELSE IF b = 0 THEN a
  ELSE ((a + b) % 2) + (2 * XorBits(a \div 2, b \div 2))

\* a & b bit by bit
RECURSIVE AndBits(_, _)
AndBits(a, b) ==
  IF a = 0 \/ b = 0 THEN 0
  ELSE ((a % 2) * (b % 2)) + (2 * AndBits(a \div 2, b \div 2))

\* The two operations on 4-bit digits, tabulated.
XorDigit == [x \in 0..15 |-> [y \in 0..15 |-> XorBits(x, y)]]

AndDigit == [x \in 0..15 |-> [y \in 0..15 |-> AndBits(x, y)]]

\* The four 4-bit digits of a 16-bit half, lowest first.
HexDigits(a) == <<a % 16, (a \div 16) % 16, (a \div 256) % 16, a \div 4096>>

\* The operation of a table on two 16-bit halves given by their digits.
Digitwise(table, x, y) ==
  table[x[1]][y[1]] + (16 * table[x[2]][y[2]])
    + (256 * table[x[3]][y[3]]) + (4096 * table[x[4]][y[4]])

\* a ^ b on 16-bit halves
Xor16(a, b) == Digitwise(XorDigit, HexDigits(a), HexDigits(b))

\* a & b on 16-bit halves
And16(a, b) == Digitwise(AndDigit, HexDigits(a), HexDigits(b))

XorW(a, b) == Word(Xor16(a[1], b[1]), Xor16(a[2], b[2]))

AndW(a, b) == Word(And16(a[1], b[1]), And16(a[2], b[2]))

RECURSIVE Pow2(_)
Pow2(k) == IF k = 0 THEN 1 ELSE 2 * Pow2(k - 1)

\* a >> k for 0 < k < 32
ShrW(a, k) ==
  IF k >= 16 THEN Word(0, a[1] \div Pow2(k - 16))
  ELSE Word(a[1] \div Pow2(k),
            ((a[1] % Pow2(k)) * Pow2(16 - k)) + (a[2] \div Pow2(k)))

\* (a << k) mod 2^32 for 0 < k < 16
ShlW(a, k) ==
  Word(((a[1] * Pow2(k)) % 65536) + (a[2] \div Pow2(16 - k)),
       (a[2] * Pow2(k)) % 65536)

\* (a + b) mod 2^32
AddW(a, b) ==
  Word((a[1] + b[1] + ((a[2] + b[2]) \div 65536)) % 65536,
       (a[2] + b[2]) % 65536)

\* (a - n) mod 2^32 for 0 <= n < 65536
SubW(a, n) ==
  IF a[2] >= n THEN Word(a[1], a[2] - n)
  ELSE Word((a[1] + 65535) % 65536, a[2] + 65536 - n)

\* (x * c) mod 2^16 for 16-bit x and c, through the bytes of c
Mul16(x, c) ==
  ((x * (c % 256)) + (((x * (c \div 256)) % 256) * 256)) % 65536

\* (a * c) mod 2^32
MulW(a, c) ==
  LET p == a[2] * (c[2] % 256)
      q == a[2] * (c[2] \div 256)
      low == p + ((q % 256) * 256)
      carry == (low \div 65536) + (q \div 256)
  IN Word((carry + Mul16(a[1], c[2]) + Mul16(a[2], c[1])) % 65536,
          low % 65536)

\* _randommodule.c: #define N 624, #define M 397
N == 624

M == 397

\* x ^ (x >> 30)
Mix(x) == XorW(x, ShrW(x, 30))

\* init_genrand(s): mt[0] = s; mt[i] = 1812433253 * Mix(mt[i-1]) + i.
\* mt is 1-based here: mt[i + 1] is the C array's mt[i].
InitStep(st) ==
  IF st.k = 0 THEN st
  ELSE LET i == Len(st.mt)
       IN [st EXCEPT !.mt = Append(st.mt,
                                   AddW(MulW(Mix(st.mt[i]),
                                             WordOf(1812433253)),
                                        WordOf(i))),
                     !.k = st.k - 1]

\* The end of a round of init_by_array on [mt, i, j, key, k]: mt[i] = v;
\* i++; if (i >= N) { mt[0] = mt[N-1]; i = 1; }
Store(st, v) ==
  [st EXCEPT !.mt = IF st.i + 1 >= N
                      THEN [st.mt EXCEPT ![N] = v, ![1] = v]
                      ELSE [st.mt EXCEPT ![st.i + 1] = v],
             !.i = IF st.i + 1 >= N THEN 1 ELSE st.i + 1,
             !.k = st.k - 1]

\* j++; if (j >= key_length) j = 0;
NextKey(st) ==
  [st EXCEPT !.j = IF st.j + 1 >= Len(st.key) THEN 0 ELSE st.j + 1]

\* init_by_array, first loop:
\* mt[i] = (mt[i] ^ (Mix(mt[i-1]) * 1664525)) + key[j] + j
KeyStep(st) ==
  IF st.k = 0 THEN st
  ELSE NextKey(Store(st, AddW(AddW(XorW(st.mt[st.i + 1],
                                        MulW(Mix(st.mt[st.i]),
                                             WordOf(1664525))),
                                   st.key[st.j + 1]),
                              WordOf(st.j))))

\* init_by_array, second loop:
\* mt[i] = (mt[i] ^ (Mix(mt[i-1]) * 1566083941)) - i
FinalStep(st) ==
  IF st.k = 0 THEN st
  ELSE Store(st, SubW(XorW(st.mt[st.i + 1],
                           MulW(Mix(st.mt[st.i]), WordOf(1566083941))),
                      st.i))

\* One round of the loop a state is in.
LoopStep(st) ==
  IF st.loop = "init" THEN InitStep(st)
  ELSE IF st.loop = "key" THEN KeyStep(st) ELSE FinalStep(st)

\* The rounds of a loop in blocks: n blocks of 5^level rounds each, every
\* round on the state the round before has left, until the counter k has
\* run out.
RECURSIVE Rounds(_, _, _)
Rounds(st, level, n) ==
  IF n = 0 \/ st.k = 0 THEN st
  ELSE Rounds(IF level = 0 THEN LoopStep(st) ELSE Rounds(st, level - 1, 5),
              level, n - 1)

\* A loop of at most 625 rounds, run to its end.
Loop(st) == Rounds(st, 3, 5)

init_genrand(s) ==
  Loop([loop |-> "init", mt |-> <<WordOf(s)>>, k |-> N - 1]).mt

\* The words init_genrand(19650218) leaves, from which init_by_array starts.
GenrandBase == init_genrand(19650218)

\* init_by_array(key) for a key of at most N words; mt[0] = 0x80000000
init_by_array(key) ==
  LET a == Loop([loop |-> "key", mt |-> GenrandBase, i |-> 1, j |-> 0,
                 key |-> key, k |-> Max(N, Len(key))])
      b == Loop([a EXCEPT !.loop = "final", !.k = N - 1])
  IN [mt |-> [b.mt EXCEPT ![1] = Word(32768, 0)], mti |-> 0]

\* genrand_uint32, the regeneration of a word from y and the word M places
\* on: far ^ (y >> 1) ^ (0x9908b0df if y is odd)
Twist(y, far) ==
  XorW(XorW(far, ShrW(y, 1)),
       IF y[2] % 2 = 1 THEN Word(39176, 45279) ELSE Word(0, 0))

\* genrand_uint32, the regeneration of the word at position p:
\* y = (mt[p] & 0x80000000) | (mt[p+1] & 0x7fffffff);
\* mt[p] = mt[p+M] ^ (y >> 1) ^ (0x9908b0df if y is odd)
Regenerated(mt, p) ==
  Twist(XorW(AndW(mt[p + 1], Word(32768, 0)),
             AndW(mt[((p + 1) % N) + 1], Word(32767, 65535))),
        mt[((p + M) % N) + 1])

\* y ^= y >> k
TemperRight(y, k) == XorW(y, ShrW(y, k))

\* y ^= (y << k) & mask
TemperLeft(y, k, mask) == XorW(y, AndW(ShlW(y, k), mask))

\* genrand_uint32, the tempering: y ^= y >> 11; y ^= (y << 7) & 0x9d2c5680;
\* y ^= (y << 15) & 0xefc60000; y ^= y >> 18
Temper(y0) ==
  TemperRight(TemperLeft(TemperLeft(TemperRight(y0, 11),
                                    7, Word(40236, 22144)),
                         15, Word(61382, 0)),
              18)

\* genrand_uint32 with w the regenerated word at mti
Output(rng, w) ==
  [value |-> Temper(w),
   rng |-> [mt |-> [rng.mt EXCEPT ![rng.mti + 1] = w],
            mti |-> (rng.mti + 1) % N]]

genrand_uint32(rng) == Output(rng, Regenerated(rng.mt, rng.mti))

\* The integer of a word below 2^31.
IntOf(w) == (w[1] * 65536) + w[2]

\* The top k bits of a draw d.
TopBits(k, d) == [value |-> IntOf(ShrW(d.value, 32 - k)), rng |-> d.rng]

\* getrandbits(k) for 0 < k < 32: genrand_uint32() >> (32 - k)
getrandbits(k, rng) == TopBits(k, genrand_uint32(rng))

\* n.bit_length()
RECURSIVE BitLength(_)
BitLength(n) == IF n = 0 THEN 0 ELSE 1 + BitLength(n \div 2)

\* random.py _randbelow_with_getrandbits(n) for n > 0:
\* r = getrandbits(k); while r >= n: r = getrandbits(k)
RECURSIVE randbelow(_, _)
Accept(n, r) == IF r.value >= n THEN randbelow(n, r.rng) ELSE r

randbelow(n, rng) == Accept(n, getrandbits(BitLength(n), rng))

\* The states random.seed leaves for the seeds of the runs.
SeededStates == [a \in 0..MaxSeed |-> init_by_array(<<WordOf(a)>>)]

\* The states the generator of a fresh process can start in: the module
\* keys it from the operating system's entropy.
StartStates ==
  {init_by_array(key) : key \in {<<WordOf(5), WordOf(7)>>, <<WordOf(11)>>}}

\* A variant of main that does not seed the generator.
random_seed_Unseeded(a, start) == start

\* question_gen.py line 123: random.seed(args.seed) for an int seed below
\* 2^31: the key is the one word |a|
random_seed(a, start) ==
  IF a \in DOMAIN SeededStates THEN SeededStates[a]
  ELSE init_by_array(<<WordOf(Abs(a))>>)

\* random.sample with n <= 21: selection from a pool of the unselected;
\* the item at the drawn position d is taken and the last of the pool moved
\* into its place
RECURSIVE PoolSample(_, _, _, _)
PoolTake(pool, k, result, d) ==
  PoolSample(SubSeq([pool EXCEPT ![d.value + 1] = pool[Len(pool)]],
                    1, Len(pool) - 1),
             k - 1, d.rng, Append(result, pool[d.value + 1]))

PoolSample(pool, k, rng, result) ==
  IF k = 0 THEN [value |-> result, rng |-> rng]
  ELSE PoolTake(pool, k, result, randbelow(Len(pool), rng))

\* random.sample with n > 21: positions drawn again while already selected
RECURSIVE SetSample(_, _, _, _, _)
SetTake(population, k, selected, result, d) ==
  IF d.value \in selected
    THEN SetSample(population, k, d.rng, selected, result)
    ELSE SetSample(population, k - 1, d.rng, selected \cup {d.value},
                   Append(result, population[d.value + 1]))

SetSample(population, k, rng, selected, result) ==
  IF k = 0 THEN [value |-> result, rng |-> rng]
  ELSE SetTake(population, k, selected, result,
               randbelow(Len(population), rng))

\* random.sample(population, k) for 0 <= k <= 5
sample_rng(population, k, rng) ==
  IF Len(population) <= 21 THEN PoolSample(population, k, rng, <<>>)
  ELSE SetSample(population, k, rng, {}, <<>>)

\* random.shuffle(x): x[i] is exchanged with x[j], j = _randbelow(i + 1),
\* for i from len(x) - 1 down to 1
RECURSIVE ShuffleFrom(_, _, _)
Exchange(x, i, d) ==
  ShuffleFrom([x EXCEPT ![i + 1] = x[d.value + 1], ![d.value + 1] = x[i + 1]],
              i - 1, d.rng)

ShuffleFrom(x, i, rng) ==
  IF i < 1 THEN [value |-> x, rng |-> rng]
  ELSE Exchange(x, i, randbelow(i + 1, rng))

shuffle_rng(x, rng) == ShuffleFrom(x, Len(x) - 1, rng)

\* options.py lines 439-447
random_sample_rng(items, k, rng) ==
  IF k <= 0 THEN [value |-> <<>>, rng |-> rng]
  ELSE IF k >= Len(items) THEN [value |-> items, rng |-> rng]
  ELSE sample_rng(items, k, rng)

\* options.py lines 432-436: the shuffled labelled facts d, rendered
Rendered_rng(d, tense) ==
  [options |-> RenderAll(d.value, tense),
   ground_truth |-> GroundTruth(d.value), rng |-> d.rng]

\* options.py lines 425-432 with the distractors ds drawn
WithDistractors_rng(chosen, ds, tense) ==
  Rendered_rng(shuffle_rng(DedupLabeled(Labeled(chosen.value, ds.value)),
                           ds.rng),
               tense)

\* options.py lines 409-423 with the true facts chosen
WithChosen_rng(chosen, pool, needed, tense) ==
  LET cands == distractor_candidates(pool, chosen.value)
  IN WithDistractors_rng(chosen,
                         random_sample_rng(cands, Min(needed, Len(cands)),
                                           chosen.rng),
                         tense)

\* options.py lines 387-436
sample_multilabel_from_facts_rng(tf0, pool, total, nc0, tense, rng) ==
  LET tf == FallbackTrueFacts(tf0)
      nc == ClampNumCorrect(nc0, tf, total)
  IN WithChosen_rng(random_sample_rng(tf, nc, rng), pool,
                    num_distractors_needed(total, nc), tense)

\* data_utils.py lines 176-215: find_velocity_cfs for "velocity",
\* find_position_cfs for "position"
find_cfs_rng(varying, entry, idx, n, rng) ==
  LET pos == entry.initial_state.position
      vel == entry.initial_state.velocity
      candidates ==
        IF varying = "velocity"
          THEN SelectSeq(DictGet(idx.pos_to_ids, pos, <<>>),
                         LAMBDA i :
                           idx.id_to_entry[i].initial_state.velocity # vel)
          ELSE SelectSeq(DictGet(idx.vel_to_ids, vel, <<>>),
                         LAMBDA i :
                           idx.id_to_entry[i].initial_state.position # pos)
  IN IF candidates = <<>> THEN [value |-> <<>>, rng |-> rng]
     ELSE sample_rng(candidates, Min(n, Len(candidates)), rng)

\* generator.py lines 94-113, 154-174, 201-217, 243-259: the run state
\* [out, rng, raised] after the sampled options s
AppendExample_rng(st, s, video, question, qtype, id, q_idx, cf) ==
  [out |-> Extend(st.out,
                  Emitted(Example(video, question, s, qtype, id, q_idx, cf))),
   rng |-> s.rng, raised |-> st.raised]

\* generator.py lines 81-113 and 143-174 on a run state
RECURSIVE QuestionLoop_rng(_, _, _, _, _, _, _, _, _)
QuestionLoop_rng(q_idx, count, tf, tense, video, question, qtype, id, st) ==
  IF st.raised \/ q_idx >= count \/ StopsRepeating(q_idx, tf) THEN st
  ELSE QuestionLoop_rng(
         q_idx + 1, count, tf, tense, video, question, qtype, id,
         AppendExample_rng(
           st,
           sample_multilabel_from_facts_rng(
             tf, pool_facts, gen_args.num_options, gen_args.num_correct,
             tense, st.rng),
           video, question, qtype, id, q_idx, NoCounterfactual))

\* generator.py lines 181-217 and 223-259 on a run state
RECURSIVE CounterfactualLoop_rng(_, _, _, _, _)
CounterfactualLoop_rng(cf_id_list, varying, id, id2entry, st) ==
  IF st.raised \/ cf_id_list = <<>> THEN st
  ELSE LET cf_entry == id2entry[Head(cf_id_list)]
           cf == [counterfactual_sim_id |-> Head(cf_id_list),
                  counterfactual_video |-> cf_entry.video,
                  counterfactual_initial_state |-> cf_entry.initial_state]
       IN CounterfactualLoop_rng(
            Tail(cf_id_list), varying, id, id2entry,
            AppendExample_rng(
              st,
              sample_multilabel_from_facts_rng(
                CounterfactualFacts(id2entry[id], cf_entry), pool_facts,
                gen_args.num_options, gen_args.num_correct,
                VariantTense("counterfactual_" \o varying), st.rng),
              id2entry[id].video,
              CounterfactualQuestion(varying, id2entry[id], cf_entry),
              "counterfactual_" \o varying, id, -1, cf))

\* generator.py lines 181-217 and 223-259 with the partners ids found
WithPartners_rng(ids, varying, id, idx, st) ==
  CounterfactualLoop_rng(ids.value, varying, id, idx.id_to_entry,
                         [st EXCEPT !.rng = ids.rng])

\* generator.py lines 177-259: the counterfactual variant of one kind
Counterfactuals_rng(varying, n, id, idx, st) ==
  IF st.raised \/ n <= 0 THEN st
  ELSE WithPartners_rng(
         find_cfs_rng(varying, idx.id_to_entry[id], idx, n, st.rng),
         varying, id, idx, st)

\* generator.py lines 62-113: the descriptive questions of shot id
Described_rng(id, idx, st) ==
  QuestionLoop_rng(0, gen_args.num_descriptive_per_shot,
                   facts_from_outcome(idx.id_to_entry[id].outcomes),
                   VariantTense("descriptive"), idx.id_to_entry[id].video,
                   "Context: " \o context_text
                     \o "\nQuestion: What happened in this video?",
                   "descriptive", id, st)

\* generator.py lines 115-174: the predictive questions of shot id; the
\* filter of line 127 runs after the descriptive questions, whatever
\* num_predictive_per_shot is, and may raise
Predicted_rng(id, idx, described) ==
  LET entry == idx.id_to_entry[id]
  IN IF described.raised THEN described
     ELSE IF FilterRaises(entry.hits_detail)
       THEN [described EXCEPT !.raised = TRUE]
     ELSE QuestionLoop_rng(
            0, gen_args.num_predictive_per_shot,
            facts_from_outcome(
              FilteredOutcomes(entry, gen_args.predictive_filter_quarters)),
            VariantTense("predictive"), ReplaceMp4(entry.video),
            "Context: " \o context_text
              \o "\nQuestion: Based on the first part of the video, what will happen in "
              \o "STRICTLY the second part of the video?",
            "predictive", id, described)

\* generator.py lines 62-259: the four variants of shot id
Shot_rng(id, idx, st) ==
  Counterfactuals_rng(
    "position", gen_args.max_position_cfs_per_shot, id, idx,
    Counterfactuals_rng(
      "velocity", gen_args.max_velocity_cfs_per_shot, id, idx,
      Predicted_rng(id, idx, Described_rng(id, idx, st))))

\* generator.py line 61: the loop over the n shots, from shot id on, left
\* by the first statement that raises
RECURSIVE ShotLoop_rng(_, _, _, _)
ShotLoop_rng(id, n, idx, st) ==
  IF st.raised \/ id >= n THEN st
  ELSE ShotLoop_rng(id + 1, n, idx, Shot_rng(id, idx, st))

\* What the call leaves of the run state st: no records when it raised.
Outcome_rng(st) == IF st.raised THEN [st EXCEPT !.out = <<>>] ELSE st

\* generator.py lines 58-261 on the index idx of n shots
GenerateFrom_rng(idx, n, rng) ==
  IF idx.raised THEN [out |-> <<>>, rng |-> rng, raised |-> TRUE]
  ELSE Outcome_rng(ShotLoop_rng(0, n, idx,
                                [out |-> <<>>, rng |-> rng, raised |-> FALSE]))

\* generate_sft_mcq_multilabel(data, **gen_args) with the generator in state
\* rng: the records returned (none when the call raises) and the state the
\* generator is left in
generate_rng(data, rng) == GenerateFrom_rng(make_index(data), Len(data), rng)

\* data_utils.py lines 49-66 for an integer max_hit_index: raised when
\* extract_cue_wall_hits raises
has_hit_index_exceeding_threshold(raw, max_hit_index) ==
  LET h == extract_cue_wall_hits(raw)
  IN [raised |-> h.raised,
      value |-> \E k \in DOMAIN h.hits :
                  h.hits[k].has_index /\ h.hits[k].index > max_hit_index]

\* question_gen.py lines 128-140: the entries kept of the files read, in the
\* order glob returns them
RECURSIVE LoadSimData(_, _)
LoadSimData(files, exclude) ==
  IF files = <<>> THEN [raised |-> FALSE, data |-> <<>>]
  ELSE LET rest == LoadSimData(Tail(files), exclude)
           over == has_hit_index_exceeding_threshold(Head(files), 18)
       IN IF exclude /\ over.raised THEN [raised |-> TRUE, data |-> <<>>]
          ELSE IF rest.raised THEN rest
          ELSE IF exclude /\ over.value THEN rest
          ELSE [raised |-> FALSE, data |-> <<Head(files)>> \o rest.data]

\* A shot whose one cue hit has a null frame: make_index passes, the filter
\* of line 127 raises.
NullFrameShot ==
  Raw("cue", <<>>, Metadata("dict", <<"null_frame">>, "int", 100),
      Vec("list", <<100, 200, 0>>), Vec("list", <<0, 1000, 0>>),
      NoOutcomesRaw, EventsField(<<NullFrameCueEvent>>), CushionTable)

\* A shot whose one cue hit is on cushion 19, at frame 10 of 100.
FarCushionShot ==
  Raw("cue", <<>>, Metadata("dict", <<"far_cushion">>, "int", 100),
      Vec("list", <<100, 200, 0>>), Vec("list", <<1000, 0, 0>>), NoOutcomesRaw,
      EventsField(<<Event("cue", "linear_cushion", CushionId("str", 19), 10)>>),
      CushionTable)

MainShots == {CfA, CfB, LegacyShot, NullFrameShot, FarCushionShot}

MainArgs ==
  {Args(1, 1, 1, 0, 0, 0, 2), Args(2, 2, 0, 0, 1, 1, 2),
   Args(2, 1, 1, 1, 0, 0, 2), Args(1, 1, 1, 1, 1, 1, 2)}

\* raw_qa.jsonl before the first run: absent, or left by an earlier run.
NoFile == [exists |-> FALSE, records |-> <<>>]

EarlierFile == [exists |-> TRUE, records |-> <<>>]

MainInit ==
  /\ seed \in 0..MaxSeed
  /\ exclude_invalid_hits \in BOOLEAN
  /\ output_file \in {NoFile, EarlierFile}
  /\ runs = <<>>
  /\ gen_args \in MainArgs
  /\ sim_data \in SeqsUpTo(MainShots, MaxMainShots)
  /\ pool_facts = DISTRACTOR_POOL_FACTS
  /\ index = <<>>
  /\ ipc = "idle"
  /\ cf_query = <<>>
  /\ cf_ids = <<>>
  /\ sim_id = 0
  /\ filtered_outcomes = <<>>
  /\ out_dataset = <<>>
  /\ gpc = "idle"
  /\ HitsIdle
  /\ CoordIdle

\* A run that raises exits with code 1 before line 161 opens the output
\* file.
ExitFailure == [exit_code |-> 1, wrote |-> FALSE, records |-> <<>>]

\* question_gen.py lines 156-164
WriteOutput(dataset) ==
  IF dataset.raised THEN ExitFailure
  ELSE [exit_code |-> 0, wrote |-> TRUE, records |-> dataset.out]

\* question_gen.py lines 142-164 on the entries loaded
GenerateAndWrite(loaded, rng) ==
  IF loaded.raised THEN ExitFailure
  ELSE WriteOutput(generate_rng(loaded.data, rng))

\* question_gen.py lines 121-166 in a process whose generator starts in
\* state start: the exit code and the records written
main(start) ==
  GenerateAndWrite(LoadSimData(sim_data, exclude_invalid_hits),
                   random_seed(seed, start))

\* One run of the tool in a fresh process; sim_data holds the entries of the
\* shot files in the order glob returns them.
Main ==
  /\ Len(runs) < MaxRuns
  /\ \E start \in StartStates :
       \E run \in {main(start)} :
         /\ runs' = Append(runs, run)
         /\ output_file' = IF run.wrote
                             THEN [exists |-> TRUE, records |-> run.records]
                             ELSE output_file
  /\ UNCHANGED <<seed, exclude_invalid_hits, hitVars, indexVars, genVars,
                 coordVars>>
  /\ UNCHANGED <<factVars, samplerVars>>

MainNext == Main

InitMain == MainInit /\ FactsIdle /\ SamplerIdle

SpecMain == InitMain /\ [][MainNext]_vars

(***************************************************************************)
(* Claims about seeded runs.                                               *)
(***************************************************************************)
\* C25: two runs over the same input records in the same order with the
\* same seed produce the identical sequence of records: every random choice
\* of a run (true facts, distractors, option shuffle, partner selection) is
\* drawn from the one seeded source and from nothing else.
C25_SameSeedSameRecords ==
  \A i, j \in DOMAIN runs : runs[i] = runs[j]

C25_Witness ==
  /\ Len(runs) = 2
  /\ runs[1] = runs[2]
  /\ Len(sim_data) = 2
  /\ \E k \in DOMAIN runs[1].records :
       /\ runs[1].records[k].metadata.question_type
            = "counterfactual_velocity"
       /\ Len(runs[1].records[k].options) = 2

====
